---------------------------- MODULE Spec2Model ----------------------------
(***************************************************************************)
(* Model of maturin's src/module_writer.rs: the three ModuleWriter         *)
(* backends (PathWriter, WheelWriter, SDistWriter), the exclusion filter,  *)
(* the RECORD ledger and the cffi declaration generator.                   *)
(*                                                                         *)
(* Paths, file contents and RECORD text are TLA+ strings.  One behaviour   *)
(* of Spec constructs one writer, applies ModuleWriter calls to it and     *)
(* finalizes it.  I/O failures are inputs of every call (fault).           *)
(***************************************************************************)
EXTENDS Integers, Sequences, FiniteSets, TLC

VARIABLES
    writer,     \* which backend this run constructed
    excludes,   \* WheelWriter.excludes / SDistWriter.excludes : Option<Override>
    fs,         \* PathWriter: files under base_path, relative path -> content
    dirs,       \* PathWriter: directories under base_path, "" is base_path itself
    zip,        \* WheelWriter.zip: the entries started so far, in order
    tar,        \* SDistWriter.tar: the entries appended so far, in order
    record,     \* PathWriter.record / WheelWriter.record : Vec<(String, String, usize)>
    files,      \* SDistWriter.files : HashSet<PathBuf>
    closed,     \* the writer was consumed by finish / write_record
    last,       \* the arguments of the latest call
    result,     \* what the latest call returned: "Ok" or "Err"
    writes,     \* history: (target, bytes) of every call that returned Ok so far
    ncalls,     \* number of calls made on the writer
    faults,     \* number of I/O failures injected so far
    pc,         \* generate_cffi_declarations: control point
    gen,        \* generate_cffi_declarations: the generation outputs seen, in order
    probes,     \* generate_cffi_declarations: the probe outputs seen, in order
    installs,   \* generate_cffi_declarations: the installer outputs seen, in order
    ret,        \* generate_cffi_declarations: the value returned
    job,        \* the inputs of the layout function this run applies to the writer
    issued      \* the calls that function made on the writer, in order

vars == <<writer, excludes, fs, dirs, zip, tar, record, files, closed, last, result,
          writes, ncalls, faults, pc, gen, probes, installs, ret, job, issued>>

writerVars == <<writer, excludes, fs, dirs, zip, tar, record, files, closed, last,
                result, writes, ncalls, faults, job, issued>>

cffiVars == <<pc, gen, probes, installs, ret>>

---------------------------------------------------------------------------
(* Bounds of the model *)

\* calls made on one writer before it is finalized
MaxCalls == 2

\* I/O failures injected in one run
MaxFaults == 1

\* rules in an exclusion rule set (SpecExclude)
MaxRules == 2

\* calls in the exclusion scenario (SpecExclude)
MaxOffers == 4

\* delete_dir calls a run can make beyond MaxCalls
MaxDeletes == 2

---------------------------------------------------------------------------
(* Strings *)

Char(s, i) == SubSeq(s, i, i)

\* str::replace(from, to) for a one-character pattern, over s[lo..hi]
RECURSIVE ReplaceIn(_, _, _, _, _)
ReplaceIn(s, from, to, lo, hi) ==
    IF lo > hi THEN ""
    ELSE IF lo = hi THEN (IF Char(s, lo) = from THEN to ELSE Char(s, lo))
    ELSE LET mid == (lo + hi) \div 2
         IN  ReplaceIn(s, from, to, lo, mid) \o ReplaceIn(s, from, to, mid + 1, hi)

Replace(s, from, to) == ReplaceIn(s, from, to, 1, Len(s))

\* index of the last "/" of p[lo..hi], 0 when it has none
RECURSIVE LastSlash(_, _, _)
LastSlash(p, lo, hi) ==
    IF lo > hi THEN 0
    ELSE IF lo = hi THEN (IF Char(p, lo) = "/" THEN lo ELSE 0)
    ELSE LET mid   == (lo + hi) \div 2
             right == LastSlash(p, mid + 1, hi)
         IN  IF right # 0 THEN right ELSE LastSlash(p, lo, mid)

\* the last component of a path
Basename(p) == SubSeq(p, LastSlash(p, 1, Len(p)) + 1, Len(p))

\* Path::join
Join(a, b) == a \o "/" \o b

\* Path::parent of a relative path, "" for a path of one component
Parent(p) ==
    LET i == LastSlash(p, 1, Len(p))
    IN  IF i = 0 THEN "" ELSE SubSeq(p, 1, i - 1)

\* the path, its parents up to the root "", as fs::create_dir_all walks them
WithAncestors(p) ==
    {"", p} \cup { SubSeq(p, 1, i - 1) : i \in { j \in 1..Len(p) : Char(p, j) = "/" } }

\* p is dir or lies below it
Under(dir, p) ==
    \/ p = dir
    \/ Len(p) > Len(dir) /\ SubSeq(p, 1, Len(dir) + 1) = dir \o "/"

---------------------------------------------------------------------------
(* Exclusion filter: Option<ignore::overrides::Override> *)

NoOverride == [some |-> FALSE, rules |-> <<>>]

SomeOverride(rules) == [some |-> TRUE, rules |-> rules]

\* OverrideBuilder::add: a leading "!" makes the glob an ignore glob of the
\* override; without it the glob is a whitelist glob of the override.
IsNegated(rule) == Len(rule) > 0 /\ Char(rule, 1) = "!"

GlobOf(rule) == IF IsNegated(rule) THEN SubSeq(rule, 2, Len(rule)) ELSE rule

\* A glob without "/" is matched against the last component of the path; a
\* trailing "*" matches any run of characters, the rest is literal.
GlobMatches(glob, path) ==
    LET name == Basename(path)
        n    == Len(glob)
    IN  IF n > 0 /\ Char(glob, n) = "*"
        THEN /\ Len(name) >= n - 1
             /\ SubSeq(name, 1, n - 1) = SubSeq(glob, 1, n - 1)
        ELSE name = glob

\* the index of the last rule whose glob matches path, 0 when none does
RECURSIVE LastMatchFrom(_, _, _)
LastMatchFrom(rules, path, i) ==
    IF i = 0 THEN 0
    ELSE IF GlobMatches(GlobOf(rules[i]), path) THEN i
    ELSE LastMatchFrom(rules, path, i - 1)

\* a matcher in which the first rule added decides instead of the last
MatchedFirstRuleWins(ov, path) ==
    LET hits == { i \in 1..Len(ov.rules) : GlobMatches(GlobOf(ov.rules[i]), path) }
    IN  IF hits = {} THEN "None"
        ELSE LET i == CHOOSE j \in hits : \A k \in hits : j <= k
             IN  IF IsNegated(ov.rules[i]) THEN "Ignore" ELSE "Whitelist"

\* Override::matched(path, false): "Whitelist", "Ignore" or "None".  The
\* globs are searched from the last one added; the first hit decides.  With no
\* hit, a file is ignored when the override holds at least one whitelist glob.
Matched(ov, path) ==
    IF Len(ov.rules) = 0 THEN "None"
    ELSE LET i == LastMatchFrom(ov.rules, path, Len(ov.rules))
         IN  IF i # 0
             THEN (IF IsNegated(ov.rules[i]) THEN "Ignore" ELSE "Whitelist")
             ELSE IF \E j \in 1..Len(ov.rules) : ~IsNegated(ov.rules[j])
                  THEN "Ignore" ELSE "None"

\* WheelWriter::exclude, SDistWriter::exclude
exclude(ov, path) ==
    IF ov.some THEN Matched(ov, path) = "Whitelist" ELSE FALSE


---------------------------------------------------------------------------
(* Content hash: base64::encode_config(Sha256::digest(bytes), URL_SAFE_NO_PAD) *)

\* the characters file contents are made of; a character's code is its place
Alphabet ==
    "\n !()-.0123456789:ABCDEFGHIJKLMNOPQRSTUVWXYZ_abcdefghijklmnopqrstuvwxyz=[]/*,'\""

CodeOf == [ c \in { Char(Alphabet, i) : i \in 1..Len(Alphabet) } |->
              CHOOSE i \in 1..Len(Alphabet) : Char(Alphabet, i) = c ]

\* the digest is kept to 12 bits (two base64 digits) instead of 256
DigestSpace == 64 * 64

\* every byte enters the digest, weighted by its place
RECURSIVE DigestSum(_, _, _)
DigestSum(bytes, lo, hi) ==
    IF lo > hi THEN 0
    ELSE IF lo = hi THEN (CodeOf[Char(bytes, lo)] * (2 * lo + 1)) % DigestSpace
    ELSE LET mid == (lo + hi) \div 2
         IN  (DigestSum(bytes, lo, mid) + DigestSum(bytes, mid + 1, hi)) % DigestSpace

Sha256Digest(bytes) == (7 + 131 * Len(bytes) + DigestSum(bytes, 1, Len(bytes))) % DigestSpace

UrlSafeAlphabet == "ABCDEFGHIJKLMNOPQRSTUVWXYZabcdefghijklmnopqrstuvwxyz0123456789-_"

\* URL_SAFE_NO_PAD: the digits, most significant first, no "=" padding
Base64UrlNoPad(n) ==
    Char(UrlSafeAlphabet, (n \div 64) + 1) \o Char(UrlSafeAlphabet, (n % 64) + 1)

HashOf(bytes) == Base64UrlNoPad(Sha256Digest(bytes))

---------------------------------------------------------------------------
(* The build the writers belong to *)

\* metadata21.get_distribution_escaped(), get_version_escaped()
Distribution == "pkg"

Version == "1.0.0"

\* metadata21.get_dist_info_dir()
DistInfoDir == Distribution \o "-" \o Version \o ".dist-info"

\* the compatibility tags handed to WheelWriter::new
Tag == "t1"

Tags == <<"t1">>

\* PathWriter.base_path
BasePath == "/venv/site-packages"

\* WheelWriter.wheel_path (wheel_dir is the current directory)
WheelPath == Distribution \o "-" \o Version \o "-" \o Tag \o ".whl"

\* SDistWriter.path
SDistPath == Distribution \o "-" \o Version \o ".tar.gz"

\* 0o644, 0o755
DefaultPermissions == 420

ExecPermissions == 493

\* the files of the build machine a source path can name: content and mode
\* (path, content, mode)
DiskTable ==
    << <<"yes", "a", DefaultPermissions>>,
       <<"test1", "", ExecPermissions>>,
       \* license files of the project
       <<"LICENSE", "l", DefaultPermissions>>,
       <<"legal/NOTICE", "n", DefaultPermissions>>,
       \* the data directory proj/pkg.data and the file a link in it points to
       <<"proj/pkg.data/data/f", "d", DefaultPermissions>>,
       <<"proj/pkg.data/scripts/s", "s", ExecPermissions>>,
       <<"proj/pkg.data/bogus/b", "b", DefaultPermissions>>,
       <<"proj/pkg.data/purelib/m", "m", DefaultPermissions>>,
       <<"proj/pkg.data/README", "r", DefaultPermissions>>,
       <<"/store/real", "t", DefaultPermissions>>,
       \* the interpreted-source tree proj/pkg, with what an editable build left
       <<"proj/pkg/__init__.py", "i", DefaultPermissions>>,
       <<"proj/pkg/ext.abi3.so", "o", ExecPermissions>>,
       <<"proj/pkg/ext.cpython-310-x86_64-linux-gnu.so", "o", ExecPermissions>>,
       <<"proj/pkg/ext.cp310-win_amd64.pyd", "o", ExecPermissions>>,
       <<"proj/pkg/ext.pyd", "o", ExecPermissions>>,
       <<"proj/pkg/ext/__init__.py", "c", DefaultPermissions>>,
       <<"proj/pkg/ext/ffi.py", "e", DefaultPermissions>>,
       <<"proj/pkg/ext/native.so", "o", ExecPermissions>>,
       \* the freshly built artifact and a type stub
       <<"target/libext.so", "x", ExecPermissions>>,
       <<"proj/ext.pyi", "p", DefaultPermissions>> >>

Disk ==
    [ p \in { DiskTable[i][1] : i \in 1..Len(DiskTable) } |->
        LET row == DiskTable[CHOOSE i \in 1..Len(DiskTable) : DiskTable[i][1] = p]
        IN  [data |-> row[2], mode |-> row[3]] ]

\* directories of the build machine that a source path can name
DiskDirs == {"/store", "proj/pkg.data/data", "proj/pkg.data/scripts",
             "proj/pkg.data/headers", "proj/pkg.data/purelib", "proj/pkg.data/bogus",
             "proj/pkg", "proj/pkg/ext"}

\* fs::read_link: what the symbolic links of the build machine hold
DiskLinks == [ p \in {"proj/pkg.data/headers/l"} |-> "/store/real" ]

\* byte buffers handed to add_bytes
Contents == {"", "a"}

\* an I/O failure of a call: where it strikes and how much was written before
NoFault == [at |-> "none", k |-> 0]

\* File::open + read_to_end of a source path.  The sdist's own output file
\* exists while the writer is open and holds whatever has been flushed to it
\* (own); any other path is read from Disk.
ReadSource(kind, source, own) ==
    IF kind = "SDistWriter" /\ source = SDistPath
    THEN [ok |-> TRUE, data |-> own, mode |-> DefaultPermissions]
    ELSE IF source \in DOMAIN Disk
    THEN [ok |-> TRUE, data |-> Disk[source].data, mode |-> Disk[source].mode]
    ELSE [ok |-> FALSE, data |-> "", mode |-> 0]

---------------------------------------------------------------------------
(* Writer state as a value: w = [fs, zip, tar, record, files]; every        *)
(* operation maps it to [w |-> the state after, res |-> "Ok" or "Err"].     *)

Ok(w) == [w |-> w, res |-> "Ok"]

Err(w) == [w |-> w, res |-> "Err"]

EmptyWriter == [fs |-> <<>>, dirs |-> {""}, zip |-> <<>>, tar |-> <<>>, record |-> <<>>, files |-> {}]

\* fs with path created or overwritten
WriteFile(fsys, path, data) ==
    [ p \in (DOMAIN fsys) \cup {path} |-> IF p = path THEN data ELSE fsys[p] ]

(* PathWriter *)

\* an open that creates whatever directory is missing
OpensAnywhere(w, target) == FALSE

\* File::create / OpenOptions::open of base_path.join(target) cannot succeed:
\* the parent is not an existing directory, or the path is a directory
CannotOpen(w, target) == Parent(target) \notin w.dirs \/ target \in w.dirs

\* fs::create_dir_all(base_path.join(path))
PathWriter_add_directory(w, path, fault) ==
    IF fault.at = "open" \/ WithAncestors(path) \cap DOMAIN w.fs # {} THEN Err(w)
    ELSE Ok([w EXCEPT !.dirs = @ \cup WithAncestors(path)])

\* a PathWriter that pushes the record before it has written the file
PathWriter_add_bytes_recording_first(w, target, bytes, permissions, fault) ==
    LET rec == Append(w.record, <<target, HashOf(bytes), Len(bytes)>>)
    IN  IF fault.at = "open" \/ CannotOpen(w, target) THEN Err([w EXCEPT !.record = rec])
        ELSE IF fault.at = "write" /\ fault.k < Len(bytes)
        THEN Err([w EXCEPT !.fs = WriteFile(w.fs, target, SubSeq(bytes, 1, fault.k)),
                           !.record = rec])
        ELSE Ok([w EXCEPT !.fs = WriteFile(w.fs, target, bytes), !.record = rec])

PathWriter_add_bytes_with_permissions(w, target, bytes, permissions, fault) ==
    IF fault.at = "open" \/ CannotOpen(w, target) THEN Err(w)
    ELSE IF fault.at = "write" /\ fault.k < Len(bytes)
    THEN Err([w EXCEPT !.fs = WriteFile(w.fs, target, SubSeq(bytes, 1, fault.k))])
    ELSE Ok([w EXCEPT !.fs = WriteFile(w.fs, target, bytes),
                      !.record = Append(w.record, <<target, HashOf(bytes), Len(bytes)>>)])

(* WheelWriter *)

WheelWriter_add_directory(w, path, fault) == Ok(w)

\* a WheelWriter that, like the SDistWriter, drops a target it already holds
WheelWriter_add_bytes_first_wins(ov, w, target, bytes, permissions, fault) ==
    LET name == Replace(target, "\\", "/")
    IN  IF exclude(ov, target) THEN Ok(w)
        ELSE IF \E i \in 1..Len(w.record) : w.record[i][1] = name THEN Ok(w)
        ELSE IF fault.at = "open" THEN Err(w)
        ELSE IF fault.at = "write" /\ fault.k < Len(bytes)
        THEN Err([w EXCEPT !.zip = Append(w.zip,
                     [name |-> name, data |-> SubSeq(bytes, 1, fault.k),
                      mode |-> permissions, whole |-> FALSE])])
        ELSE Ok([w EXCEPT !.zip = Append(w.zip,
                     [name |-> name, data |-> bytes, mode |-> permissions,
                      whole |-> TRUE]),
                          !.record = Append(w.record, <<name, HashOf(bytes), Len(bytes)>>)])

WheelWriter_add_bytes_with_permissions(ov, w, target, bytes, permissions, fault) ==
    IF exclude(ov, target) THEN Ok(w)
    ELSE LET name  == Replace(target, "\\", "/")
             entry == [name |-> name, data |-> bytes, mode |-> permissions, whole |-> TRUE]
         IN  IF fault.at = "open" THEN Err(w)
             ELSE IF fault.at = "write" /\ fault.k < Len(bytes)
             THEN Err([w EXCEPT !.zip = Append(w.zip,
                          [entry EXCEPT !.data = SubSeq(bytes, 1, fault.k),
                                        !.whole = FALSE])])
             ELSE Ok([w EXCEPT !.zip = Append(w.zip, entry),
                               !.record = Append(w.record,
                                                 <<name, HashOf(bytes), Len(bytes)>>)])

(* SDistWriter *)

SDistWriter_add_directory(w, path, fault) == Ok(w)

\* tar::Builder::append_data / append_path_with_name: the header, then the
\* data, then the padding; a failure after the header leaves a torn entry
TarAppend(w, target, data, mode, fault) ==
    LET entry == [path |-> target, type |-> "file", size |-> Len(data), mode |-> mode,
                  data |-> data, whole |-> TRUE]
    IN  IF fault.at = "open" THEN Err(w)
        ELSE IF fault.at = "write" /\ Len(data) > 0 /\ fault.k <= Len(data)
        THEN Err([w EXCEPT !.tar = Append(w.tar,
                     [entry EXCEPT !.data = SubSeq(data, 1, fault.k), !.whole = FALSE])])
        ELSE Ok([w EXCEPT !.tar = Append(w.tar, entry),
                          !.files = w.files \cup {target}])

\* append_path_with_name of a source that is a directory: a directory entry
\* under the target's name, without content
TarAppendDir(w, target, fault) ==
    IF fault.at # "none" THEN Err(w)
    ELSE Ok([w EXCEPT !.tar = Append(w.tar,
                 [path |-> target, type |-> "dir", size |-> 0, mode |-> ExecPermissions,
                  data |-> "", whole |-> TRUE]),
                      !.files = w.files \cup {target}])

\* an SDistWriter that does not look the target up in files
SDistWriter_add_bytes_without_dedup(ov, w, target, bytes, permissions, fault) ==
    IF exclude(ov, target) THEN Ok(w)
    ELSE TarAppend(w, target, bytes, permissions, fault)

\* an SDistWriter that enters the target in files before it appends it
SDistWriter_add_bytes_inserting_first(ov, w, target, bytes, permissions, fault) ==
    IF exclude(ov, target) THEN Ok(w)
    ELSE IF target \in w.files THEN Ok(w)
    ELSE LET r == TarAppend(w, target, bytes, permissions, fault)
         IN  [r EXCEPT !.w.files = w.files \cup {target}]

SDistWriter_add_bytes_with_permissions(ov, w, target, bytes, permissions, fault) ==
    IF exclude(ov, target) THEN Ok(w)
    ELSE IF target \in w.files THEN Ok(w)
    ELSE TarAppend(w, target, bytes, permissions, fault)

SDistWriter_add_file(ov, w, target, source, fault, own) ==
    IF exclude(ov, source) THEN Ok(w)
    ELSE IF source = SDistPath THEN Ok(w)
    ELSE IF target \in w.files THEN Ok(w)
    ELSE IF source \in DiskDirs THEN TarAppendDir(w, target, fault)
    ELSE LET f == ReadSource("SDistWriter", source, own)
         IN  IF ~f.ok THEN Err(w)
             ELSE TarAppend(w, target, f.data, f.mode, fault)

(* trait ModuleWriter: dispatch and default methods *)

add_directory(kind, w, path, fault) ==
    CASE kind = "PathWriter"  -> PathWriter_add_directory(w, path, fault)
      [] kind = "WheelWriter" -> WheelWriter_add_directory(w, path, fault)
      [] kind = "SDistWriter" -> SDistWriter_add_directory(w, path, fault)

add_bytes_with_permissions(kind, ov, w, target, bytes, permissions, fault) ==
    CASE kind = "PathWriter" ->
           PathWriter_add_bytes_with_permissions(w, target, bytes, permissions, fault)
      [] kind = "WheelWriter" ->
           WheelWriter_add_bytes_with_permissions(ov, w, target, bytes, permissions, fault)
      [] kind = "SDistWriter" ->
           SDistWriter_add_bytes_with_permissions(ov, w, target, bytes, permissions, fault)

add_bytes(kind, ov, w, target, bytes, fault) ==
    add_bytes_with_permissions(kind, ov, w, target, bytes, DefaultPermissions, fault)

add_file_with_permissions(kind, ov, w, target, source, permissions, fault, own) ==
    LET f == ReadSource(kind, source, own)
    IN  IF ~f.ok THEN Err(w)
        ELSE add_bytes_with_permissions(kind, ov, w, target, f.data, permissions, fault)

add_file(kind, ov, w, target, source, fault, own) ==
    IF kind = "SDistWriter"
    THEN SDistWriter_add_file(ov, w, target, source, fault, own)
    ELSE add_file_with_permissions(kind, ov, w, target, source, DefaultPermissions,
                                   fault, own)

---------------------------------------------------------------------------
(* Layout functions make their calls on the writer one after the other and   *)
(* return at the first that fails.                                           *)

DirCall(path) ==
    [op |-> "add_directory", target |-> path, source |-> "", bytes |-> "",
     permissions |-> 0]

BytesCall(target, bytes) ==
    [op |-> "add_bytes", target |-> target, source |-> "", bytes |-> bytes,
     permissions |-> DefaultPermissions]

BytesPermCall(target, bytes, permissions) ==
    [op |-> "add_bytes_with_permissions", target |-> target, source |-> "",
     bytes |-> bytes, permissions |-> permissions]

FileCall(target, source) ==
    [op |-> "add_file", target |-> target, source |-> source, bytes |-> "",
     permissions |-> DefaultPermissions]

FilePermCall(target, source, permissions) ==
    [op |-> "add_file_with_permissions", target |-> target, source |-> source,
     bytes |-> "", permissions |-> permissions]

\* one call, made without an injected I/O failure
Do(kind, ov, w, c) ==
    CASE c.op = "add_directory" -> add_directory(kind, w, c.target, NoFault)
      [] c.op = "add_bytes" -> add_bytes(kind, ov, w, c.target, c.bytes, NoFault)
      [] c.op = "add_bytes_with_permissions" ->
            add_bytes_with_permissions(kind, ov, w, c.target, c.bytes, c.permissions,
                                       NoFault)
      [] c.op = "add_file" -> add_file(kind, ov, w, c.target, c.source, NoFault, "")
      [] c.op = "add_file_with_permissions" ->
            add_file_with_permissions(kind, ov, w, c.target, c.source, c.permissions,
                                      NoFault, "")

\* the calls from the i-th on, r being what the call before them returned:
\* they are made up to the first that fails; made counts the calls that
\* were made
RECURSIVE RunFrom(_, _, _, _, _)
RunFrom(kind, ov, r, calls, i) ==
    IF r.res = "Err" THEN [w |-> r.w, res |-> "Err", made |-> i - 1]
    ELSE IF i > Len(calls) THEN [w |-> r.w, res |-> "Ok", made |-> Len(calls)]
    ELSE RunFrom(kind, ov, Do(kind, ov, r.w, calls[i]), calls, i + 1)

Run(kind, ov, w, calls) == RunFrom(kind, ov, Ok(w), calls, 1)

---------------------------------------------------------------------------
(* The metadata directory *)

\* env!("CARGO_PKG_NAME"), env!("CARGO_PKG_VERSION") of the build of maturin
CargoPkgName == "maturin"

CargoPkgVersion == "0.14.0"

RECURSIVE TagLines(_, _)
TagLines(tags, i) ==
    IF i > Len(tags) THEN "" ELSE "Tag: " \o tags[i] \o "\n" \o TagLines(tags, i + 1)

\* a WHEEL file that lists the tags last to first
WheelFileTagsReversed(tags) ==
    "Wheel-Version: 1.0\nGenerator: " \o CargoPkgName \o " (" \o CargoPkgVersion
        \o ")\nRoot-Is-Purelib: false\n"
        \o TagLines([ i \in 1..Len(tags) |-> tags[Len(tags) + 1 - i] ], 1)

wheel_file(tags) ==
    "Wheel-Version: 1.0\nGenerator: " \o CargoPkgName \o " (" \o CargoPkgVersion
        \o ")\nRoot-Is-Purelib: false\n" \o TagLines(tags, 1)

\* metadata21.to_file_contents(): the core metadata of a project that declares
\* no entry points and no license files
MetadataFileContents ==
    "Metadata-Version: 2.1\nName: " \o Distribution \o "\nVersion: " \o Version \o "\n"

\* Metadata21, as far as write_dist_info reads it: the console and gui
\* scripts as (name, entry point) pairs in the order the map yields them, the
\* custom groups as (group, pairs) in the order their map yields them, and
\* the license files
PlainMetadata ==
    [scripts |-> <<>>, gui_scripts |-> <<>>, entry_points |-> <<>>,
     license_files |-> <<>>]

\* entry_points_txt(entry_type, entrypoints), folded over the first n pairs
RECURSIVE EntryLines(_, _)
EntryLines(entrypoints, n) ==
    IF n = 0 THEN ""
    ELSE EntryLines(entrypoints, n - 1) \o entrypoints[n][1] \o "=" \o entrypoints[n][2]
             \o "\n"

entry_points_txt(entry_type, entrypoints) ==
    "[" \o entry_type \o "]\n" \o EntryLines(entrypoints, Len(entrypoints))

\* the for loop over metadata21.entry_points, over its first n groups
RECURSIVE GroupSections(_, _)
GroupSections(entry_points, n) ==
    IF n = 0 THEN ""
    ELSE GroupSections(entry_points, n - 1)
         \o entry_points_txt(entry_points[n][1], entry_points[n][2])

\* the text write_dist_info collects for entry_points.txt
EntryPoints(metadata21) ==
    (IF metadata21.scripts # <<>>
     THEN entry_points_txt("console_scripts", metadata21.scripts) ELSE "")
    \o (IF metadata21.gui_scripts # <<>>
        THEN entry_points_txt("gui_scripts", metadata21.gui_scripts) ELSE "")
    \o GroupSections(metadata21.entry_points, Len(metadata21.entry_points))

\* a write_dist_info that writes WHEEL before METADATA
DistInfoCallsWheelFirst(metadata21, tags) ==
    << DirCall(DistInfoDir),
       BytesCall(Join(DistInfoDir, "WHEEL"), wheel_file(tags)),
       BytesCall(Join(DistInfoDir, "METADATA"), MetadataFileContents) >>

\* the calls write_dist_info makes on the writer, in program order
DistInfoCalls(metadata21, tags) ==
    LET license_files_dir == Join(DistInfoDir, "license_files")
        paths             == metadata21.license_files
    IN  << DirCall(DistInfoDir),
           BytesCall(Join(DistInfoDir, "METADATA"), MetadataFileContents),
           BytesCall(Join(DistInfoDir, "WHEEL"), wheel_file(tags)) >>
        \o (IF EntryPoints(metadata21) # ""
            THEN <<BytesCall(Join(DistInfoDir, "entry_points.txt"), EntryPoints(metadata21))>>
            ELSE <<>>)
        \o (IF paths # <<>>
            THEN <<DirCall(license_files_dir)>>
                 \o [ i \in 1..Len(paths) |->
                        FileCall(Join(license_files_dir, Basename(paths[i])), paths[i]) ]
            ELSE <<>>)

\* write_dist_info: every call is followed by ?
write_dist_info(kind, ov, w, metadata21, tags) ==
    Run(kind, ov, w, DistInfoCalls(metadata21, tags))

\* wheel_dir.join("{distribution}-{version}-{tag}.whl"), wheel_dir being "."
WheelPathFor(tag) == Distribution \o "-" \o Version \o "-" \o tag \o ".whl"

\* WheelWriter::new, when File::create succeeds
WheelWriter_new(tag, metadata21, tags, ov) ==
    LET r == write_dist_info("WheelWriter", ov, EmptyWriter, metadata21, tags)
    IN  [w |-> r.w, res |-> r.res, made |-> r.made, wheel_path |-> WheelPathFor(tag)]

---------------------------------------------------------------------------
(* Finalize *)

\* format!("{},sha256={},{}\n", filename, hash, len)
RecordLine(rec) == rec[1] \o ",sha256=" \o rec[2] \o "," \o ToString(rec[3]) \o "\n"

\* the lines of the first n records
RECURSIVE RecordLines(_, _)
RecordLines(recs, n) ==
    IF n = 0 THEN "" ELSE RecordLines(recs, n - 1) \o RecordLine(recs[n])

\* format!("{},,\n", record_file)
SelfLine(record_file) == record_file \o ",,\n"

\* PathWriter::write_record: RECORD is created in the metadata directory under
\* base_path; a failed write leaves the lines written so far
PathWriter_write_record(w, fault) ==
    LET record_file == Join(Join(BasePath, DistInfoDir), "RECORD")
        at          == Join(DistInfoDir, "RECORD")
    IN  IF fault.at = "open" \/ CannotOpen(w, at) THEN Err(w)
        ELSE IF fault.at = "write" /\ fault.k <= Len(w.record)
        THEN Err([w EXCEPT !.fs = WriteFile(w.fs, at, RecordLines(w.record, fault.k))])
        ELSE Ok([w EXCEPT !.fs = WriteFile(w.fs, at,
                     RecordLines(w.record, Len(w.record)) \o SelfLine(record_file))])

\* a finish that puts the RECORD entry in front of the others
WheelWriter_finish_record_first(w, fault) ==
    LET record_filename == Replace(Join(DistInfoDir, "RECORD"), "\\", "/")
        entry == [name |-> record_filename,
                  data |-> RecordLines(w.record, Len(w.record)) \o SelfLine(record_filename),
                  mode |-> DefaultPermissions, whole |-> TRUE]
    IN  IF fault.at # "none" THEN Err(w)
        ELSE Ok([w EXCEPT !.zip = <<entry>> \o w.zip])

\* WheelWriter::finish: the RECORD entry is started without consulting the
\* exclusion filter, the lines are written, the zip is finished
WheelWriter_finish(w, fault) ==
    LET record_filename == Replace(Join(DistInfoDir, "RECORD"), "\\", "/")
        entry == [name |-> record_filename,
                  data |-> RecordLines(w.record, Len(w.record)) \o SelfLine(record_filename),
                  mode |-> DefaultPermissions, whole |-> TRUE]
    IN  IF fault.at = "open" THEN Err(w)
        ELSE IF fault.at = "write" /\ fault.k <= Len(w.record)
        THEN Err([w EXCEPT !.zip = Append(w.zip,
                     [entry EXCEPT !.data = RecordLines(w.record, fault.k),
                                   !.whole = FALSE])])
        ELSE IF fault.at = "close"
        THEN Err([w EXCEPT !.zip = Append(w.zip, entry)])
        ELSE Ok([w EXCEPT !.zip = Append(w.zip, entry)])

\* SDistWriter::finish
SDistWriter_finish(w, fault) ==
    IF fault.at = "close" THEN Err(w) ELSE Ok(w)

finish(kind, w, fault) ==
    CASE kind = "PathWriter"  -> PathWriter_write_record(w, fault)
      [] kind = "WheelWriter" -> WheelWriter_finish(w, fault)
      [] kind = "SDistWriter" -> SDistWriter_finish(w, fault)

---------------------------------------------------------------------------
(* The writers as a state machine *)

Writers == {"PathWriter", "WheelWriter", "SDistWriter"}

\* the 0o777 of tests::sdist_writer_excludes
TestPermissions == 511

\* target paths offered to a writer; the second one holds a backslash
SpecTargets == {"test1", "d\\f"}

\* a directory under the installation root, and a target inside it
SpecDirs == {"pkg"}

Targets(kind) == SpecTargets \cup (IF kind = "PathWriter" THEN {"pkg/m"} ELSE {})

\* source paths offered to add_file: two files, one that does not exist, and
\* for the SDistWriter its own output path
Sources(kind) ==
    {"yes", "test1", "missing"} \cup (IF kind = "SDistWriter" THEN {SDistPath} ELSE {})

Permissions == {DefaultPermissions, ExecPermissions}

\* the rule sets of tests::sdist_writer_excludes: none, and ["test*", "!test2"]
ScenarioRules == SomeOverride(<<"test*", "!test2">>)

RuleSets == {NoOverride, ScenarioRules}

\* failures of one call: at its first I/O step, while writing (k units were
\* written), or when closing
Faults(n) == { [at |-> a, k |-> k] : a \in {"open", "write", "close"}, k \in 0..n }

\* a rule set that names the wheel's RECORD
RecordRules == SomeOverride(<<"RECORD">>)

\* a run that applies no layout function
NoJob == [fn |-> "none"]

NoCall == [op |-> "new", target |-> "", source |-> "", bytes |-> "", permissions |-> 0]

State == [fs |-> fs, dirs |-> dirs, zip |-> zip, tar |-> tar, record |-> record, files |-> files]

Becomes(w) ==
    /\ fs' = w.fs
    /\ dirs' = w.dirs
    /\ zip' = w.zip
    /\ tar' = w.tar
    /\ record' = w.record
    /\ files' = w.files

InitState(w) ==
    /\ fs = w.fs
    /\ dirs = w.dirs
    /\ zip = w.zip
    /\ tar = w.tar
    /\ record = w.record
    /\ files = w.files

\* the writes made through write_dist_info before the run starts: by
\* WheelWriter::new, and on a PathWriter by the caller that installs in place
NewWrites(kind) ==
    IF kind \in {"WheelWriter", "PathWriter"}
    THEN << [target |-> Join(DistInfoDir, "METADATA"), bytes |-> MetadataFileContents],
            [target |-> Join(DistInfoDir, "WHEEL"), bytes |-> wheel_file(Tags)] >>
    ELSE <<>>

\* WheelWriter::new, SDistWriter::new, and PathWriter::from_path followed by
\* write_dist_info, which creates the metadata directory write_record needs
InitWriter(kind, ov) ==
    /\ writer = kind
    /\ excludes = ov
    /\ InitState(CASE kind = "WheelWriter" ->
                       WheelWriter_new(Tag, PlainMetadata, Tags, ov).w
                  [] kind = "PathWriter" ->
                       write_dist_info(kind, ov, EmptyWriter, PlainMetadata, Tags).w
                  [] kind = "SDistWriter" -> EmptyWriter)
    /\ closed = FALSE
    /\ last = NoCall
    /\ result = "Ok"
    /\ writes = NewWrites(kind)
    /\ ncalls = 0
    /\ faults = 0
    /\ job = NoJob
    /\ issued = <<>>

\* a call that a writer already consumed by finish would still accept
CallAfterFinish(op, target, source, bytes, permissions, r, fault, bound) ==
    /\ ncalls < bound
    /\ fault.at # "none" => (faults < MaxFaults /\ r.res = "Err")
    /\ Becomes(r.w)
    /\ result' = r.res
    /\ last' = [op |-> op, target |-> target, source |-> source, bytes |-> bytes,
                permissions |-> permissions]
    /\ writes' = writes
    /\ ncalls' = ncalls + 1
    /\ faults' = faults + (IF fault.at = "none" THEN 0 ELSE 1)
    /\ UNCHANGED <<writer, excludes, closed, job, issued>>
    /\ UNCHANGED cffiVars

\* one call of the trait on the open writer: r is what the call computes
Call(op, target, source, bytes, permissions, r, fault, bound) ==
    /\ ~closed
    /\ ncalls < bound
    /\ fault.at # "none" => (faults < MaxFaults /\ r.res = "Err")
    /\ Becomes(r.w)
    /\ result' = r.res
    /\ last' = [op |-> op, target |-> target, source |-> source, bytes |-> bytes,
                permissions |-> permissions]
    /\ writes' = IF r.res = "Ok" /\ op \notin {"add_directory", "delete_dir"}
                 THEN Append(writes, [target |-> target, bytes |-> bytes])
                 ELSE writes
    /\ ncalls' = ncalls + 1
    /\ faults' = faults + (IF fault.at = "none" THEN 0 ELSE 1)
    /\ UNCHANGED <<writer, excludes, closed, job, issued>>
    /\ UNCHANGED cffiVars

\* what add_file reads from source, "" when it cannot be read
SourceBytes(source, own) == ReadSource(writer, source, own).data

\* a delete_dir that clears the whole installation root
PathWriter_delete_dir_clearing_base(w, relative, fault) ==
    IF relative \notin w.dirs /\ relative \notin DOMAIN w.fs THEN Ok(w)
    ELSE IF fault.at = "open" \/ relative \in DOMAIN w.fs THEN Err(w)
    ELSE Ok([w EXCEPT !.fs = <<>>, !.dirs = {""}])

\* a delete_dir that fails when there is nothing to remove
PathWriter_delete_dir_missing_fails(w, relative, fault) ==
    IF relative \notin w.dirs \/ fault.at = "open" THEN Err(w)
    ELSE Ok([w EXCEPT !.fs = [ q \in { f \in DOMAIN w.fs : ~Under(relative, f) } |-> w.fs[q] ],
                      !.dirs = { d \in w.dirs : ~Under(relative, d) }])

\* PathWriter::delete_dir
PathWriter_delete_dir(w, relative, fault) ==
    IF relative \notin w.dirs /\ relative \notin DOMAIN w.fs THEN Ok(w)
    ELSE IF fault.at = "open" \/ relative \in DOMAIN w.fs THEN Err(w)
    ELSE Ok([w EXCEPT !.fs = [ q \in { f \in DOMAIN w.fs : ~Under(relative, f) } |-> w.fs[q] ],
                      !.dirs = { d \in w.dirs : ~Under(relative, d) }])

DeleteDir(relative, fault) ==
    /\ writer = "PathWriter"
    /\ Call("delete_dir", relative, "", "", 0,
            PathWriter_delete_dir(State, relative, fault), fault, MaxCalls + MaxDeletes)

AddDirectory(path, fault) ==
    Call("add_directory", path, "", "", 0,
         add_directory(writer, State, path, fault), fault, MaxCalls)

AddBytes(target, bytes, fault) ==
    Call("add_bytes", target, "", bytes, DefaultPermissions,
         add_bytes(writer, excludes, State, target, bytes, fault), fault, MaxCalls)

AddBytesWithPermissions(target, bytes, permissions, fault, bound) ==
    Call("add_bytes_with_permissions", target, "", bytes, permissions,
         add_bytes_with_permissions(writer, excludes, State, target, bytes,
                                    permissions, fault), fault, bound)

AddFile(target, source, fault, own) ==
    Call("add_file", target, source, SourceBytes(source, own), DefaultPermissions,
         add_file(writer, excludes, State, target, source, fault, own), fault, MaxCalls)

AddFileWithPermissions(target, source, permissions, fault, own) ==
    Call("add_file_with_permissions", target, source, SourceBytes(source, own),
         permissions,
         add_file_with_permissions(writer, excludes, State, target, source,
                                   permissions, fault, own), fault, MaxCalls)

\* WheelWriter::finish, SDistWriter::finish, PathWriter::write_record
Finish(fault) ==
    LET r == finish(writer, State, fault)
    IN  /\ ~closed
        /\ fault.at # "none" => (faults < MaxFaults /\ r.res = "Err")
        /\ Becomes(r.w)
        /\ result' = r.res
        /\ closed' = TRUE
        /\ last' = [NoCall EXCEPT !.op = "finish"]
        /\ faults' = faults + (IF fault.at = "none" THEN 0 ELSE 1)
        /\ UNCHANGED <<writer, excludes, writes, ncalls, job, issued>>
        /\ UNCHANGED cffiVars

CffiIdle ==
    /\ pc = "idle"
    /\ gen = <<>>
    /\ probes = <<>>
    /\ installs = <<>>
    /\ ret = [done |-> FALSE, ok |-> FALSE, message |-> ""]

Init ==
    /\ \E kind \in Writers :
         \E ov \in (CASE kind = "PathWriter" -> {NoOverride}
                      [] kind = "WheelWriter" -> RuleSets \cup {RecordRules}
                      [] kind = "SDistWriter" -> RuleSets) :
            InitWriter(kind, ov)
    /\ CffiIdle

AnyFault == {NoFault} \cup Faults(1)

\* what the sdist's own output file may hold when it is read as a source
OwnContents(source) == IF source = SDistPath THEN Contents ELSE {""}

Next ==
    \/ \E path \in SpecDirs, fault \in AnyFault : AddDirectory(path, fault)
    \/ \E relative \in SpecDirs, fault \in AnyFault : DeleteDir(relative, fault)
    \/ \E target \in Targets(writer), bytes \in Contents, fault \in AnyFault :
         AddBytes(target, bytes, fault)
    \/ \E target \in Targets(writer), bytes \in Contents, fault \in AnyFault :
         AddBytesWithPermissions(target, bytes, ExecPermissions, fault, MaxCalls)
    \/ \E target \in Targets(writer), source \in Sources(writer), fault \in AnyFault :
       \E own \in OwnContents(source) :
         AddFile(target, source, fault, own)
    \/ \E target \in Targets(writer), source \in Sources(writer), fault \in AnyFault :
       \E own \in OwnContents(source) :
         AddFileWithPermissions(target, source, ExecPermissions, fault, own)
    \/ \E fault \in {NoFault} \cup Faults(Len(record)) : Finish(fault)

Spec == Init /\ [][Next]_vars

---------------------------------------------------------------------------
(* The exclusion filter on its own: an SDistWriter built with any rule set  *)
(* is offered the targets of tests::sdist_writer_excludes the way the test  *)
(* offers them, add_bytes_with_permissions(target, &[], 0o777).             *)

ScenarioTargets == {"test1", "test2", "test3", "yes"}

Patterns == {"test*", "!test2", "yes"}

\* the sequences over S of length at most n
SeqsUpTo(S, n) == UNION { [1..k -> S] : k \in 0..n }

ExcludeRuleSets == {NoOverride} \cup { SomeOverride(r) : r \in SeqsUpTo(Patterns, MaxRules) }

InitExclude ==
    /\ \E ov \in ExcludeRuleSets : InitWriter("SDistWriter", ov)
    /\ CffiIdle

NextExclude ==
    \/ \E target \in ScenarioTargets :
         AddBytesWithPermissions(target, "", TestPermissions, NoFault, MaxOffers)
    \/ Finish(NoFault)

SpecExclude == InitExclude /\ [][NextExclude]_vars

---------------------------------------------------------------------------
(* generate_cffi_declarations *)

\* index of the last "\n" of s[lo..hi], 0 when it has none
RECURSIVE LastNewline(_, _, _)
LastNewline(s, lo, hi) ==
    IF lo > hi THEN 0
    ELSE IF lo = hi THEN (IF Char(s, lo) = "\n" THEN lo ELSE 0)
    ELSE LET mid   == (lo + hi) \div 2
             right == LastNewline(s, mid + 1, hi)
         IN  IF right # 0 THEN right ELSE LastNewline(s, lo, mid)

\* text.lines().last().unwrap_or(""): a final "\n" ends the last line
LastLine(text) ==
    LET n    == Len(text)
        body == IF n > 0 /\ Char(text, n) = "\n" THEN SubSeq(text, 1, n - 1) ELSE text
    IN  SubSeq(body, LastNewline(body, 1, Len(body)) + 1, Len(body))

IsSpace(c) == c \in {" ", "\n", "\t"}

RECURSIVE TrimStart(_)
TrimStart(s) ==
    IF Len(s) > 0 /\ IsSpace(Char(s, 1)) THEN TrimStart(SubSeq(s, 2, Len(s))) ELSE s

RECURSIVE TrimEnd(_)
TrimEnd(s) ==
    IF Len(s) > 0 /\ IsSpace(Char(s, Len(s))) THEN TrimEnd(SubSeq(s, 1, Len(s) - 1)) ELSE s

\* str::trim
Trim(s) == TrimEnd(TrimStart(s))

MissingCffi == "ModuleNotFoundError: No module named 'cffi'"

PleaseInstall == "Please install cffi yourself."

\* the interpreter handed to generate_cffi_declarations
Python == "python"

\* a captured stream: its bytes as text, and whether they are valid UTF-8
Utf8(text) == [utf8 |-> TRUE, text |-> text]

NotUtf8 == [utf8 |-> FALSE, text |-> ""]

StdoutStreams == {Utf8("True\n"), Utf8("False\n"), Utf8("out\n"), NotUtf8}

StderrStreams ==
    {Utf8(""), Utf8("Traceback\n" \o MissingCffi \o "\n"),
     Utf8(MissingCffi \o "\nnote\n"), NotUtf8}

\* what call_python returns: the Output of a process that ran, or the error of
\* one that could not be started
Outputs ==
    { [ran |-> TRUE, code |-> c, stdout |-> o, stderr |-> e] :
        c \in {0, 1}, o \in StdoutStreams, e \in StderrStreams }
    \cup { [ran |-> FALSE, code |-> 0, stdout |-> Utf8(""), stderr |-> Utf8("")] }

\* output.status.success()
Success(output) == output.code = 0

\* Display of an ExitStatus
ShowStatus(output) == "exit status: " \o ToString(output.code)

NotReturned == [done |-> FALSE, ok |-> FALSE, message |-> ""]

ReturnOk(content) == [done |-> TRUE, ok |-> TRUE, message |-> content]

ReturnErr(message) == [done |-> TRUE, ok |-> FALSE, message |-> message]

\* the errors of call_python, str::from_utf8 and of reading ffi.py
SpawnError == ReturnErr("Failed to run python at " \o Python)

Utf8Error == ReturnErr("invalid utf-8 sequence")

IoError == ReturnErr("io error")

\* what the recompiler leaves in ffi.py
FfiPy == "ffi = _cffi_backend.FFI()"

GenerateFailedWithoutOutput(output) ==
    ReturnErr("Failed to generate cffi declarations using " \o Python)

\* the bail! of handle_cffi_call_result
GenerateFailed(output) ==
    IF ~output.stdout.utf8 \/ ~output.stderr.utf8 THEN Utf8Error
    ELSE ReturnErr("Failed to generate cffi declarations using " \o Python \o ": "
                   \o ShowStatus(output) \o "\n--- Stdout:\n" \o output.stdout.text
                   \o "\n--- Stderr:\n" \o output.stderr.text)

InstallFailedWithoutAdvice(output) ==
    IF ~output.stdout.utf8 \/ ~output.stderr.utf8 THEN Utf8Error
    ELSE ReturnErr("Installing cffi with " \o Python \o " -m pip install cffi failed: "
                   \o ShowStatus(output) \o "\n--- Stdout:\n" \o output.stdout.text
                   \o "\n--- Stderr:\n" \o output.stderr.text)

\* the bail! after the installer
InstallFailed(output) ==
    IF ~output.stdout.utf8 \/ ~output.stderr.utf8 THEN Utf8Error
    ELSE ReturnErr("Installing cffi with " \o Python \o " -m pip install cffi failed: "
                   \o ShowStatus(output) \o "\n--- Stdout:\n" \o output.stdout.text
                   \o "\n--- Stderr:\n" \o output.stderr.text
                   \o "\n---\n" \o PleaseInstall)

\* handle_cffi_call_result; io: forwarding stderr, reading ffi.py and closing
\* the temporary directory all succeed
handle_cffi_call_result(output, io) ==
    IF ~Success(output) THEN GenerateFailed(output)
    ELSE IF ~io THEN IoError
    ELSE ReturnOk(FfiPy)

\* a check that looks for the missing-module line anywhere in stderr
MissingModuleAnywhere(output) ==
    /\ ~Success(output)
    /\ output.stderr.utf8
    /\ \E i \in 1..Len(output.stderr.text) :
          \E k \in i..Len(output.stderr.text) :
             SubSeq(output.stderr.text, i, k) = MissingCffi

\* the first generation failed for want of cffi: lines 580-583
MissingModule(output) ==
    /\ ~Success(output)
    /\ output.stderr.utf8
    /\ LastLine(output.stderr.text) = MissingCffi

\* the match on the probe's standard output: lines 592-602
ProbeSaysIsolatedUntrimmed(output) == output.stdout.text = "True"

ProbeSaysIsolated(output) == Trim(output.stdout.text) = "True"

Return(value) ==
    /\ ret' = value
    /\ pc' = "done"

\* line 579 and what follows it up to the probe
Generate(output, io) ==
    /\ pc = "generate"
    /\ gen' = Append(gen, output)
    /\ UNCHANGED <<probes, installs>>
    /\ IF ~output.ran THEN Return(SpawnError)
       ELSE IF ~Success(output) /\ ~output.stderr.utf8 THEN Return(Utf8Error)
       ELSE IF MissingModule(output) THEN pc' = "probe" /\ ret' = ret
       ELSE Return(handle_cffi_call_result(output, io))
    /\ UNCHANGED writerVars

\* lines 587-613
Probe(output, io) ==
    /\ pc = "probe"
    /\ probes' = Append(probes, output)
    /\ UNCHANGED <<gen, installs>>
    /\ IF ~output.ran THEN Return(SpawnError)
       ELSE IF ~output.stdout.utf8 THEN Return(Utf8Error)
       ELSE IF ProbeSaysIsolated(output) THEN pc' = "install" /\ ret' = ret
       ELSE Return(handle_cffi_call_result(gen[1], io))
    /\ UNCHANGED writerVars

\* lines 615-637
Install(output) ==
    /\ pc = "install"
    /\ installs' = Append(installs, output)
    /\ UNCHANGED <<gen, probes>>
    /\ IF ~output.ran THEN Return(SpawnError)
       ELSE IF ~Success(output) THEN Return(InstallFailed(output))
       ELSE pc' = "retry" /\ ret' = ret
    /\ UNCHANGED writerVars

\* a retry that goes back to the probe when cffi is still missing
RetryProbingAgain(output, io) ==
    /\ pc = "retry"
    /\ gen' = Append(gen, output)
    /\ UNCHANGED <<probes, installs>>
    /\ IF ~output.ran THEN Return(SpawnError)
       ELSE IF MissingModule(output) THEN pc' = "probe" /\ ret' = ret
       ELSE Return(handle_cffi_call_result(output, io))
    /\ UNCHANGED writerVars

\* lines 639-641
Retry(output, io) ==
    /\ pc = "retry"
    /\ gen' = Append(gen, output)
    /\ UNCHANGED <<probes, installs>>
    /\ IF ~output.ran THEN Return(SpawnError)
       ELSE Return(handle_cffi_call_result(output, io))
    /\ UNCHANGED writerVars

InitCffi ==
    /\ InitWriter("SDistWriter", NoOverride)
    /\ pc = "generate"
    /\ gen = <<>>
    /\ probes = <<>>
    /\ installs = <<>>
    /\ ret = NotReturned

NextCffi ==
    \/ \E output \in Outputs, io \in BOOLEAN : Generate(output, io)
    \/ \E output \in Outputs, io \in BOOLEAN : Probe(output, io)
    \/ \E output \in Outputs : Install(output)
    \/ \E output \in Outputs, io \in BOOLEAN : Retry(output, io)

SpecCffi == InitCffi /\ [][NextCffi]_vars

\* every subprocess that is started returns: call_python waits for it
SpecCffiFair == SpecCffi /\ WF_vars(NextCffi)

---------------------------------------------------------------------------
(* The layout functions as a state machine: one run constructs a writer,     *)
(* applies one layout function to it and finalizes it.                       *)

\* the function of job has not run yet on the open writer
Pending(fn) ==
    /\ job.fn = fn
    /\ last.op = "new"
    /\ ~closed

\* what the successful calls among the first n of calls wrote
RECURSIVE WritesOf(_, _, _)
WritesOf(kind, calls, n) ==
    IF n = 0 THEN <<>>
    ELSE LET c == calls[n]
         IN  IF c.op = "add_directory" THEN WritesOf(kind, calls, n - 1)
             ELSE Append(WritesOf(kind, calls, n - 1),
                         [target |-> c.target,
                          bytes  |-> IF c.op \in {"add_file", "add_file_with_permissions"}
                                     THEN ReadSource(kind, c.source, "").data
                                     ELSE c.bytes])

\* the function has run and r is what its calls came to
Completed(fn, calls, bails, job_after, r) ==
    /\ Becomes(r.w)
    /\ result' = IF bails THEN "Err" ELSE r.res
    /\ issued' = SubSeq(calls, 1, r.made)
    /\ writes' = writes \o WritesOf(writer, calls,
                                    IF r.res = "Ok" THEN r.made ELSE r.made - 1)
    /\ ncalls' = ncalls + r.made
    /\ last' = [NoCall EXCEPT !.op = fn]
    /\ job' = job_after
    /\ UNCHANGED <<writer, excludes, closed, faults>>
    /\ UNCHANGED cffiVars

\* the function runs: it makes its calls up to the first that fails; bails
\* says that it returns an error of its own after the last call
Applied(fn, calls, bails, job_after) ==
    /\ Pending(fn)
    /\ Completed(fn, calls, bails, job_after, Run(writer, excludes, State, calls))

\* a writer on which nothing has been called
InitLayout(kind, ov, w, j) ==
    /\ writer = kind
    /\ excludes = ov
    /\ InitState(w)
    /\ closed = FALSE
    /\ last = NoCall
    /\ result = "Ok"
    /\ writes = <<>>
    /\ ncalls = 0
    /\ faults = 0
    /\ job = j
    /\ issued = <<>>
    /\ CffiIdle

TagLists == {<<>>, <<"t1">>, <<"t1", "t2">>, <<"t2", "t1">>}

WheelTags == {"t1", "t2"}

ScriptMaps == {<<>>, << <<"run", "pkg:main">> >>}

LicenseLists == {<<>>, <<"LICENSE">>, <<"LICENSE", "legal/NOTICE">>,
                 <<"legal/NOTICE", "LICENSE">>}

\* metadata21.entry_points: no group, a group without entries, a group with
\* two entries, two groups
EntryGroupMaps ==
    { <<>>,
      << <<"g", <<>>>> >>,
      << <<"g", << <<"k", "v">>, <<"k2", "v2">> >>>> >>,
      << <<"h", << <<"a", "b">> >>>>, <<"g", << <<"k", "v">> >>>> >> }

Metadatas ==
    [scripts : ScriptMaps, gui_scripts : ScriptMaps, entry_points : EntryGroupMaps,
     license_files : LicenseLists]

NewJobs ==
    { [fn |-> "WheelWriter::new", tag |-> t, tags |-> ts, metadata21 |-> md,
       wheel_path |-> ""] : t \in WheelTags, ts \in TagLists, md \in Metadatas }

DistInfoJobs ==
    { [fn |-> "write_dist_info", tags |-> ts, metadata21 |-> md] :
        ts \in TagLists, md \in Metadatas }

\* WheelWriter::new(tag, wheel_dir, metadata21, tags, excludes)
WheelNew ==
    /\ writer = "WheelWriter"
    /\ Applied("WheelWriter::new", DistInfoCalls(job.metadata21, job.tags), FALSE,
               [job EXCEPT !.wheel_path =
                   WheelWriter_new(job.tag, job.metadata21, job.tags, excludes).wheel_path])

\* write_dist_info(&mut writer, metadata21, tags) on a PathWriter or SDistWriter
WriteDistInfo ==
    Applied("write_dist_info", DistInfoCalls(job.metadata21, job.tags), FALSE, job)

\* the writer as its constructor leaves it
FreshWriter(kind) ==
    IF kind = "WheelWriter" THEN WheelWriter_new(Tag, PlainMetadata, Tags, NoOverride).w
    ELSE EmptyWriter

\* the data directory handed to add_data and its parent
DataDir == "proj/pkg.data"

DataParent == "proj"

\* Path::strip_prefix(prefix)
StripPrefix(path, prefix) == SubSeq(path, Len(prefix) + 2, Len(path))

\* what the walk of a directory of the data directory yields after the
\* directory itself
Children ==
    [ d \in {"data", "scripts", "headers", "purelib", "bogus"} |->
        CASE d = "data" -> <<"f">>
          [] d = "scripts" -> <<"s">>
          [] d = "headers" -> <<"l">>
          [] d = "purelib" -> <<"m">>
          [] d = "bogus" -> <<"b">> ]

\* a data directory that takes every subdirectory
AnyDataDirName(dir_name) == TRUE

\* possible_data_dir_names.contains(dir_name)
PossibleDataDirName(dir_name) ==
    dir_name \in {"data", "scripts", "headers", "purelib", "platlib"}

\* the call add_data makes for one entry of the walk: lines 1022-1036
DataCall(path) ==
    LET relative == StripPrefix(path, DataParent)
    IN  IF path \in DOMAIN DiskLinks
        THEN FileCall(relative, Parent(DiskLinks[path]))
        ELSE IF path \in DOMAIN Disk THEN FileCall(relative, path)
        ELSE DirCall(relative)

\* the calls made for one subdirectory: the walk yields it and what is in it
WalkCalls(dir_name) ==
    LET root == Join(DataDir, dir_name)
    IN  <<DataCall(root)>>
        \o [ i \in 1..Len(Children[dir_name]) |->
               DataCall(Join(root, Children[dir_name][i])) ]

\* add_data over the entries read_dir yields from the i-th on: the calls it
\* makes, and whether it bails at an invalid entry
RECURSIVE DataPlan(_, _)
DataPlan(entries, i) ==
    IF i > Len(entries) THEN [calls |-> <<>>, bails |-> FALSE]
    ELSE IF Join(DataDir, entries[i]) \notin DiskDirs \/ ~PossibleDataDirName(entries[i])
    THEN [calls |-> <<>>, bails |-> TRUE]
    ELSE LET rest == DataPlan(entries, i + 1)
         IN  [calls |-> WalkCalls(entries[i]) \o rest.calls, bails |-> rest.bails]

\* the entries of a data directory, in the order read_dir yields them
DataEntries == {"data", "scripts", "headers", "purelib", "bogus", "README"}

DataListings ==
    { es \in SeqsUpTo(DataEntries, 3) : \A i, k \in 1..Len(es) : i # k => es[i] # es[k] }

DataJobs ==
    { [fn |-> "add_data", data |-> d, entries |-> es] :
        d \in BOOLEAN, es \in DataListings }

\* add_data(&mut writer, data)
AddData ==
    LET plan == IF job.data THEN DataPlan(job.entries, 1)
                ELSE [calls |-> <<>>, bails |-> FALSE]
    IN  Applied("add_data", plan.calls, plan.bails, job)

\* Path::extension of a file name: what follows its last ".", "" when it has
\* none or only a leading one
RECURSIVE LastDot(_, _, _)
LastDot(p, lo, hi) ==
    IF lo > hi THEN 0
    ELSE IF lo = hi THEN (IF Char(p, lo) = "." THEN lo ELSE 0)
    ELSE LET mid   == (lo + hi) \div 2
             right == LastDot(p, mid + 1, hi)
         IN  IF right # 0 THEN right ELSE LastDot(p, lo, mid)

Extension(path) ==
    LET name == Basename(path)
        i    == LastDot(name, 1, Len(name))
    IN  IF i <= 1 THEN "" ELSE SubSeq(name, i + 1, Len(name))

\* the project: ProjectLayout of a mixed project (python_module is Some) and
\* of a pure Rust one, the module name and the built artifact
PythonModule == "proj/pkg"

RustModule(mixed) == IF mixed THEN PythonModule ELSE "proj"

ExtName == "ext"

ModuleName == "ext"

Artifact == "target/libext.so"

\* PythonInterpreter::get_library_name(base): base and the interpreter's
\* extension suffix
get_library_name(base, unix) ==
    IF unix THEN base \o ".cpython-310-x86_64-linux-gnu.so"
    ELSE base \o ".cp310-win_amd64.pyd"

\* so_filename of write_bindings_module; interpreter is python_interpreter
\* being Some, unix is target.is_unix()
SoFilename(interpreter, unix) ==
    IF interpreter THEN get_library_name(ExtName, unix)
    ELSE IF unix THEN ExtName \o ".abi3.so"
    ELSE ExtName \o ".pyd"

LibraryNames == { SoFilename(i, u) : i, u \in BOOLEAN }

\* The files under python_module are a function from their path below it to
\* their content.  What an editable build places there:
PlacedByBindings(so_filename) == { so_filename }

PlacedByCffi ==
    { Join(ModuleName, "native.so"), Join(ModuleName, "__init__.py"),
      Join(ModuleName, "ffi.py") }

TreeOf(paths) == [ p \in paths |-> Disk[Join(PythonModule, p)].data ]

\* the tree as checked out, and as an earlier editable build can have left it
SourceTrees ==
    { TreeOf({"__init__.py"} \cup placed) :
        placed \in {{}, PlacedByCffi} \cup { PlacedByBindings(n) : n \in LibraryNames } }

\* the order in which the walk of python_module yields what is below it
WalkOrder ==
    << "__init__.py", "ext", "ext/__init__.py", "ext/ffi.py", "ext/native.so",
       "ext.abi3.so", "ext.cp310-win_amd64.pyd",
       "ext.cpython-310-x86_64-linux-gnu.so", "ext.pyd" >>

\* "Ignoring native library": lines 907-911
IgnoredAsNative(relative) == Extension(relative) = "so"

\* write_python_part(writer, python_module, None): the calls it makes
PythonPartCalls(tree) ==
    LET yielded == SelectSeq(WalkOrder,
                       LAMBDA n : \E f \in DOMAIN tree : Under(n, f))
        kept    == SelectSeq(yielded,
                       LAMBDA n : ~(n \in DOMAIN tree /\ IgnoredAsNative(
                                      StripPrefix(Join(PythonModule, n), Parent(PythonModule)))))
    IN  <<DirCall(StripPrefix(PythonModule, Parent(PythonModule)))>>
        \o [ i \in 1..Len(kept) |->
               LET absolute == Join(PythonModule, kept[i])
                   relative == StripPrefix(absolute, Parent(PythonModule))
               IN  IF kept[i] \in DOMAIN tree THEN FileCall(relative, absolute)
                   ELSE DirCall(relative) ]

\* fs::copy and File::create into the tree
Placed(tree, contents) ==
    [ p \in DOMAIN tree \cup DOMAIN contents |->
        IF p \in DOMAIN contents THEN contents[p] ELSE tree[p] ]

\* the format! of the re-exporting __init__.py: lines 726-733
ReexportInit(module_name) ==
    "from ." \o module_name \o " import *\n\n__doc__ = " \o module_name
    \o ".__doc__\nif hasattr(" \o module_name \o ", \"__all__\"):\n    __all__ = "
    \o module_name \o ".__all__"

\* type_stub.exists() branch, shared by both functions
TypeStubCalls(module, stub) ==
    IF stub
    THEN << FileCall(Join(module, "__init__.pyi"),
                     Join(RustModule(FALSE), ModuleName \o ".pyi")),
            BytesCall(Join(module, "py.typed"), "") >>
    ELSE <<>>

\* a write_bindings_module whose editable branch also fills the archive
BindingsPlanArchivingEditable(j) ==
    LET so_filename == SoFilename(j.interpreter, j.unix)
        relative    == StripPrefix(RustModule(TRUE), Parent(PythonModule))
    IN  [calls |-> PythonPartCalls(j.tree)
                   \o <<FilePermCall(Join(relative, so_filename), Artifact, ExecPermissions)>>,
         bails |-> FALSE,
         tree  |-> Placed(j.tree, [ p \in {so_filename} |-> Disk[Artifact].data ])]

\* write_bindings_module: the calls it makes on the writer, whether it bails
\* on its own, and the tree it leaves
BindingsPlan(j) ==
    LET so_filename == SoFilename(j.interpreter, j.unix)
    IN  IF j.mixed
        THEN IF j.editable
             THEN [calls |-> <<>>, bails |-> FALSE,
                   tree  |-> Placed(j.tree, [ p \in PlacedByBindings(so_filename)
                                                |-> Disk[Artifact].data ])]
             ELSE LET relative == StripPrefix(RustModule(TRUE), Parent(PythonModule))
                  IN  [calls |-> PythonPartCalls(j.tree)
                                 \o <<FilePermCall(Join(relative, so_filename),
                                                   Artifact, ExecPermissions)>>,
                       bails |-> FALSE, tree |-> j.tree]
        ELSE LET module == ModuleName
             IN  [calls |-> <<DirCall(module),
                              BytesCall(Join(module, "__init__.py"),
                                        ReexportInit(ModuleName))>>
                            \o TypeStubCalls(module, j.stub)
                            \o <<FilePermCall(Join(module, so_filename),
                                              Artifact, ExecPermissions)>>,
                  bails |-> FALSE, tree |-> j.tree]

\* cffi_init_file()
cffi_init_file ==
    "__all__ = [\"lib\", \"ffi\"]\n\nimport os\nfrom .ffi import ffi\n\n"
    \o "lib = ffi.dlopen(os.path.join(os.path.dirname(__file__), 'native.so'))\n"
    \o "del os\n"

\* the three entries of the cffi module
CffiModuleCalls(module, cffi_declarations) ==
    << BytesCall(Join(module, "__init__.py"), cffi_init_file),
       BytesCall(Join(module, "ffi.py"), cffi_declarations),
       FilePermCall(Join(module, "native.so"), Artifact, ExecPermissions) >>

\* write_cffi_module; j.generated says whether generate_cffi_declarations
\* returned the declarations
CffiPlan(j) ==
    IF ~j.generated THEN [calls |-> <<>>, bails |-> TRUE, tree |-> j.tree]
    ELSE IF j.mixed
    THEN LET relative == StripPrefix(RustModule(TRUE), Parent(PythonModule))
             module   == Join(relative, ExtName)
         IN  IF j.editable
             THEN [calls |-> <<>>, bails |-> FALSE,
                   tree  |-> Placed(j.tree,
                       [ p \in PlacedByCffi |->
                           CASE p = Join(ModuleName, "native.so") -> Disk[Artifact].data
                             [] p = Join(ModuleName, "__init__.py") -> cffi_init_file
                             [] p = Join(ModuleName, "ffi.py") -> FfiPy ])]
             ELSE [calls |-> PythonPartCalls(j.tree) \o <<DirCall(module)>>
                             \o CffiModuleCalls(module, FfiPy),
                   bails |-> FALSE, tree |-> j.tree]
    ELSE LET module == ModuleName
         IN  [calls |-> <<DirCall(module)>> \o TypeStubCalls(module, j.stub)
                        \o CffiModuleCalls(module, FfiPy),
              bails |-> FALSE, tree |-> j.tree]

BindingsJobs ==
    { [fn |-> "write_bindings_module", mixed |-> m, editable |-> e,
       interpreter |-> i, unix |-> u, stub |-> s, tree |-> t] :
        m, e, i, u, s \in BOOLEAN, t \in SourceTrees }

CffiJobs ==
    { [fn |-> "write_cffi_module", mixed |-> m, editable |-> e,
       generated |-> g, stub |-> s, tree |-> t] :
        m, e, g, s \in BOOLEAN, t \in SourceTrees }

\* write_bindings_module(&mut writer, &project_layout, module_name, artifact, ..)
WriteBindingsModule ==
    /\ job.fn = "write_bindings_module"
    /\ \E plan \in {BindingsPlan(job)} :
           Applied("write_bindings_module", plan.calls, plan.bails,
                   [job EXCEPT !.tree = plan.tree])

\* write_cffi_module(&mut writer, &project_layout, .., module_name, artifact, ..)
WriteCffiModule ==
    /\ job.fn = "write_cffi_module"
    /\ \E plan \in {CffiPlan(job)} :
           Applied("write_cffi_module", plan.calls, plan.bails,
                   [job EXCEPT !.tree = plan.tree])

\* the excludes handed to WheelWriter::new: none, the rules of
\* tests::sdist_writer_excludes, and rules that name files of the metadata
\* directory
WheelRuleSets ==
    {NoOverride, ScenarioRules, SomeOverride(<<"METADATA">>), SomeOverride(<<"WHEEL">>)}

InitLayouts ==
    \/ \E j \in DataJobs, kind \in Writers :
         InitLayout(kind, NoOverride, FreshWriter(kind), j)
    \/ \E j \in NewJobs, ov \in WheelRuleSets :
         InitLayout("WheelWriter", ov, EmptyWriter, j)
    \/ \E j \in DistInfoJobs, kind \in {"PathWriter", "SDistWriter"} :
         InitLayout(kind, NoOverride, EmptyWriter, j)
    \/ \E j \in BindingsJobs, kind \in Writers :
         InitLayout(kind, NoOverride, FreshWriter(kind), j)
    \/ \E j \in CffiJobs, kind \in Writers :
         InitLayout(kind, NoOverride, FreshWriter(kind), j)

NextLayouts ==
    \/ AddData
    \/ WriteBindingsModule
    \/ WriteCffiModule
    \/ WheelNew
    \/ WriteDistInfo
    \/ Finish(NoFault)

SpecLayout == InitLayouts /\ [][NextLayouts]_vars

---------------------------------------------------------------------------
(* Vocabulary of the properties *)

EndsWith(s, suffix) ==
    /\ Len(s) >= Len(suffix)
    /\ SubSeq(s, Len(s) - Len(suffix) + 1, Len(s)) = suffix

\* whether sub occurs in s
Contains(s, sub) ==
    \E i \in 1..(Len(s) - Len(sub) + 1) : SubSeq(s, i, i + Len(sub) - 1) = sub

\* the last rule of the set whose glob matches path is an exclude rule
RuleExcludes(ov, path) ==
    /\ ov.some
    /\ \E i \in 1..Len(ov.rules) :
         /\ GlobMatches(GlobOf(ov.rules[i]), path)
         /\ ~IsNegated(ov.rules[i])
         /\ \A j \in (i + 1)..Len(ov.rules) : ~GlobMatches(GlobOf(ov.rules[j]), path)

\* the name an entry for target has in the container of the writer
NameIn(kind, target) == IF kind = "WheelWriter" THEN Replace(target, "\\", "/") ELSE target

\* one ledger record per write among the first n that the filter lets through
RECURSIVE ExpectedRecords(_, _)
ExpectedRecords(ws, n) ==
    IF n = 0 THEN <<>>
    ELSE IF RuleExcludes(excludes, ws[n].target) THEN ExpectedRecords(ws, n - 1)
    ELSE Append(ExpectedRecords(ws, n - 1),
                <<NameIn(writer, ws[n].target), HashOf(ws[n].bytes), Len(ws[n].bytes)>>)

\* the RECORD lines of the first n records
RECURSIVE ExpectedLines(_, _)
ExpectedLines(recs, n) ==
    IF n = 0 THEN ""
    ELSE ExpectedLines(recs, n - 1) \o recs[n][1] \o ",sha256=" \o recs[n][2] \o ","
             \o ToString(recs[n][3]) \o "\n"

\* the text of the RECORD file or entry the finalized writer produced
RecordContent ==
    IF writer = "PathWriter" THEN fs[Join(DistInfoDir, "RECORD")] ELSE zip[Len(zip)].data

Finalized == closed /\ result = "Ok"

\* the step is a call of the trait on the writer
CallStep == ncalls' = ncalls + 1

WriteOps == {"add_bytes", "add_bytes_with_permissions", "add_file",
             "add_file_with_permissions"}

\* the whole entries of the tar stream stored under path
WholeEntries(stream, path) ==
    { i \in 1..Len(stream) : stream[i].path = path /\ stream[i].whole }

AllEntries(stream, path) == { i \in 1..Len(stream) : stream[i].path = path }

---------------------------------------------------------------------------
(* C1 *)

\* C1: for WheelWriter and PathWriter the ledger holds exactly one record per
\* successful write that the exclusion filter did not suppress, in call order,
\* and after a successful finalize the RECORD text is the lines of those
\* records followed by one last line, for RECORD itself, that ends in two
\* empty fields.
C1_RecordPerWrite ==
    writer \in {"PathWriter", "WheelWriter"} =>
        /\ record = ExpectedRecords(writes, Len(writes))
        /\ Finalized =>
             LET lines   == ExpectedLines(record, Len(record))
                 content == RecordContent
                 tail    == SubSeq(content, Len(lines) + 1, Len(content))
             IN  /\ SubSeq(content, 1, Len(lines)) = lines
                 /\ EndsWith(tail, "RECORD,,\n")
                 /\ ~Contains(SubSeq(tail, 1, Len(tail) - 1), "\n")

\* a finalized wheel whose filter suppressed one write and recorded another
C1_Witness ==
    /\ writer = "WheelWriter"
    /\ Finalized
    /\ \E i \in 1..Len(writes) : RuleExcludes(excludes, writes[i].target)
    /\ Len(record) = 3

---------------------------------------------------------------------------
(* C2 *)

\* C2: in a finalized wheel or sdist no entry of the archive, and no record of
\* the wheel's ledger, has a path that the rule set excludes.
C2_NoExcludedEntry ==
    (Finalized /\ writer \in {"WheelWriter", "SDistWriter"}) =>
        /\ \A i \in 1..Len(tar) : ~RuleExcludes(excludes, tar[i].path)
        /\ \A i \in 1..Len(zip) : ~RuleExcludes(excludes, zip[i].name)
        /\ \A i \in 1..Len(record) : ~RuleExcludes(excludes, record[i][1])

---------------------------------------------------------------------------
(* C3 *)

\* the targets offered to the writer so far
Offered == { writes[i].target : i \in 1..Len(writes) }

\* C3: the written targets of an SDistWriter are exactly the offered targets
\* whose last matching rule is not an exclude rule, which is all of them when
\* no rule set is given; with the rules ["test*", "!test2"] and the offered
\* targets test1, test2, test3, yes the written targets are {test2, yes}.
C3_LastMatchingRuleDecides ==
    /\ files = { t \in Offered : ~RuleExcludes(excludes, t) }
    /\ ~excludes.some => files = Offered
    /\ (excludes = ScenarioRules /\ Offered = ScenarioTargets) => files = {"test2", "yes"}

\* the scenario of tests::sdist_writer_excludes, finished
C3_Witness ==
    /\ excludes = ScenarioRules
    /\ Offered = ScenarioTargets
    /\ files = {"test2", "yes"}
    /\ Finalized

---------------------------------------------------------------------------
(* C4 *)

---------------------------------------------------------------------------
(* C5 *)

\* C5: on an SDistWriter an add_file or add_file_with_permissions call whose
\* source is the writer's own output path returns Ok, appends nothing to the
\* tar stream and leaves files unchanged.
C5_SelfInclusionGuard ==
    [][ ( /\ writer = "SDistWriter"
          /\ CallStep
          /\ last'.op \in {"add_file", "add_file_with_permissions"}
          /\ last'.source = SDistPath ) =>
            (result' = "Ok" /\ tar' = tar /\ files' = files) ]_vars

---------------------------------------------------------------------------
(* C6 *)

\* the output holds something at path
IsStored(path) ==
    IF writer = "PathWriter" THEN path \in DOMAIN fs
    ELSE \E i \in 1..Len(zip) : zip[i].name = path

\* what a reader of the output finds at path: the file, or the last zip entry
\* of that name
StoredAt(path) ==
    IF writer = "PathWriter" THEN fs[path]
    ELSE LET at == CHOOSE i \in 1..Len(zip) :
                      /\ zip[i].name = path
                      /\ \A j \in (i + 1)..Len(zip) : zip[j].name # path
         IN  zip[at].data

\* C6: when a WheelWriter or PathWriter has been finalized (here: after calls
\* none of which met an I/O failure), every ledger record's hash and length
\* are those of the content stored at the record's path in the output.
C6_RecordMatchesStored ==
    (Finalized /\ faults = 0 /\ writer \in {"PathWriter", "WheelWriter"}) =>
        \A i \in 1..Len(record) :
            /\ IsStored(record[i][1])
            /\ record[i][2] = HashOf(StoredAt(record[i][1]))
            /\ record[i][3] = Len(StoredAt(record[i][1]))

---------------------------------------------------------------------------
(* C10 *)

\* the call stored the whole entry and recorded it
StoredAndRecorded ==
    LET c == last'
        n == NameIn(writer, c.target)
    IN  CASE writer = "PathWriter" ->
               /\ c.target \in DOMAIN fs'
               /\ fs'[c.target] = c.bytes
               /\ \A p \in DOMAIN fs : p # c.target => (p \in DOMAIN fs' /\ fs'[p] = fs[p])
               /\ record' = Append(record, <<n, HashOf(c.bytes), Len(c.bytes)>>)
          [] writer = "WheelWriter" ->
               /\ zip' = Append(zip, [name |-> n, data |-> c.bytes,
                                      mode |-> c.permissions, whole |-> TRUE])
               /\ record' = Append(record, <<n, HashOf(c.bytes), Len(c.bytes)>>)
          [] writer = "SDistWriter" ->
               /\ tar' = Append(tar, [path |-> c.target, type |-> "file",
                                      size |-> Len(c.bytes),
                                      mode |-> c.permissions, data |-> c.bytes,
                                      whole |-> TRUE])
               /\ files' = files \cup {c.target}

\* the call was dropped by the exclusion filter or as a duplicate
Suppressed ==
    /\ \/ RuleExcludes(excludes, last'.target)
       \/ writer = "SDistWriter" /\ last'.target \in files
    /\ UNCHANGED <<fs, zip, tar, record, files>>

\* the container holds at most one more entry, a partial one, for the target
TornAtMost ==
    LET c == last'
    IN  CASE writer = "PathWriter" ->
               /\ \A p \in DOMAIN fs : p # c.target => (p \in DOMAIN fs' /\ fs'[p] = fs[p])
               /\ DOMAIN fs' \subseteq (DOMAIN fs) \cup {c.target}
               /\ c.target \in DOMAIN fs' =>
                    \/ c.target \in DOMAIN fs /\ fs'[c.target] = fs[c.target]
                    \/ \E k \in 0..(Len(c.bytes) - 1) : fs'[c.target] = SubSeq(c.bytes, 1, k)
          [] writer = "WheelWriter" ->
               \/ zip' = zip
               \/ /\ Len(zip') = Len(zip) + 1
                  /\ SubSeq(zip', 1, Len(zip)) = zip
                  /\ ~zip'[Len(zip')].whole
          [] writer = "SDistWriter" ->
               \/ tar' = tar
               \/ /\ Len(tar') = Len(tar) + 1
                  /\ SubSeq(tar', 1, Len(tar)) = tar
                  /\ ~tar'[Len(tar')].whole

\* C10 as stated: an add_bytes_with_permissions call that returns an error
\* leaves container and ledger as they were, and one that returns Ok has
\* stored and recorded the whole entry (or was suppressed).
C10_Original ==
    [][ (CallStep /\ last'.op = "add_bytes_with_permissions") =>
          /\ result' = "Err" => UNCHANGED <<fs, zip, tar, record, files>>
          /\ result' = "Ok" => (Suppressed \/ StoredAndRecorded) ]_vars

\* C10 amended: an add_bytes_with_permissions call that returns an error
\* leaves the ledger and the set of written targets as they were, while the
\* container may keep a created or truncated file, or one partial entry, for
\* the target; a call that returns Ok was suppressed and changed nothing, or
\* has stored the whole entry and recorded it.
C10_LedgerAllOrNothing ==
    [][ (CallStep /\ last'.op = "add_bytes_with_permissions") =>
          /\ result' = "Err" => (record' = record /\ files' = files /\ TornAtMost)
          /\ result' = "Ok" => (Suppressed \/ StoredAndRecorded) ]_vars

\* a failed call left a file on disk that the ledger does not know
C10_Witness ==
    /\ writer = "PathWriter"
    /\ last.op = "add_bytes_with_permissions"
    /\ result = "Err"
    /\ last.target \in DOMAIN fs
    /\ \A i \in 1..Len(record) : record[i][1] # last.target

---------------------------------------------------------------------------
(* Vocabulary of the cffi properties *)

\* the last line of text, as str::lines sees it, is line
LastLineIs(text, line) ==
    LET body == IF EndsWith(text, "\n") THEN SubSeq(text, 1, Len(text) - 1) ELSE text
    IN  body = line \/ EndsWith(body, "\n" \o line)

Returned == pc = "done"

\* the first generation ran, failed, and its stderr ends in the missing-module line
FirstFailedMissingModule ==
    /\ Len(gen) >= 1
    /\ gen[1].ran
    /\ gen[1].code # 0
    /\ gen[1].stderr.utf8
    /\ LastLineIs(gen[1].stderr.text, MissingCffi)

\* the first generation ran and failed, and its stderr is text that does not
\* end in the missing-module line
FirstFailedOtherwise ==
    /\ Len(gen) >= 1
    /\ gen[1].ran
    /\ gen[1].code # 0
    /\ gen[1].stderr.utf8
    /\ ~LastLineIs(gen[1].stderr.text, MissingCffi)

ProbePrinted(texts) ==
    /\ Len(probes) >= 1
    /\ probes[1].ran
    /\ probes[1].stdout.utf8
    /\ probes[1].stdout.text \in texts

InstallerFailed ==
    /\ Len(installs) >= 1
    /\ installs[1].ran
    /\ installs[1].code # 0

InstallerSucceeded ==
    /\ Len(installs) >= 1
    /\ installs[1].ran
    /\ installs[1].code = 0

Readable(output) == output.stdout.utf8 /\ output.stderr.utf8

\* the error message carries the exit status and both streams of output
Carries(message, output) ==
    /\ Contains(message, ShowStatus(output))
    /\ Contains(message, "--- Stdout:\n" \o output.stdout.text)
    /\ Contains(message, "--- Stderr:\n" \o output.stderr.text)

\* r is a result that a generation subprocess with this output ends in
IsOutcomeOf(r, output) ==
    IF ~output.ran THEN r = SpawnError
    ELSE IF output.code # 0
         THEN /\ ~r.ok
              /\ IF Readable(output) THEN Carries(r.message, output) ELSE r = Utf8Error
         ELSE r \in {ReturnOk(FfiPy), IoError}

---------------------------------------------------------------------------
(* C7 *)

\* C7: when the first generation fails with the missing-module line and the
\* probe prints True, the function does not return before the installer has
\* run, the installer runs exactly once, generation is retried exactly once
\* if the installer succeeded and not at all otherwise, and the result
\* returned after the retry is the outcome of the retry.
C7_InstallOnceRetryOnce ==
    (FirstFailedMissingModule /\ ProbePrinted({"True", "True\n"})) =>
        /\ Len(probes) = 1
        /\ Len(installs) <= 1
        /\ pc \in {"retry", "done"} => Len(installs) = 1
        /\ Len(gen) <= 2
        /\ Len(gen) = 2 => InstallerSucceeded
        /\ (Returned /\ InstallerSucceeded) =>
              (Len(gen) = 2 /\ IsOutcomeOf(ret, gen[2]))

\* missing module, isolated environment, installer and retry both succeeded
C7_Witness ==
    /\ FirstFailedMissingModule
    /\ ProbePrinted({"True", "True\n"})
    /\ Returned
    /\ Len(installs) = 1
    /\ Len(gen) = 2
    /\ ret = ReturnOk(FfiPy)

---------------------------------------------------------------------------
(* C8 *)

---------------------------------------------------------------------------
(* C9 *)

---------------------------------------------------------------------------
(* C11 *)

\* the call met no injected I/O failure and, if it reads a source, could read it
Undisturbed ==
    /\ faults' = faults
    /\ last'.op \in {"add_file", "add_file_with_permissions"} =>
          ReadSource(writer, last'.source, "").ok

\* C11 as stated: on a PathWriter a write call (add_bytes, add_bytes_with_permissions,
\* add_file) for a target whose parent directory does not exist under the
\* base path, made without disturbance, returns Ok, creates the parent
\* directory and stores the file.
C11_CreatesParents ==
    [][ ( /\ writer = "PathWriter"
          /\ CallStep
          /\ last'.op \in WriteOps
          /\ Parent(last'.target) \notin dirs
          /\ Undisturbed ) =>
            /\ result' = "Ok"
            /\ Parent(last'.target) \in dirs'
            /\ last'.target \in DOMAIN fs' ]_vars

\* C11 amended: on a PathWriter an undisturbed write call for a target whose
\* parent directory does not exist under the base path returns an error and
\* creates neither directory nor file nor record; when the parent exists
\* (and the target is not a directory) the call returns Ok and stores the
\* file; and an undisturbed add_directory creates the directory with all its
\* missing parents, unless a file is in the way.
C11_ParentsComeFromAddDirectory ==
    [][ (writer = "PathWriter" /\ CallStep /\ Undisturbed) =>
          /\ (last'.op \in WriteOps /\ Parent(last'.target) \notin dirs) =>
                /\ result' = "Err"
                /\ UNCHANGED <<fs, dirs, record>>
          /\ ( /\ last'.op \in WriteOps
               /\ Parent(last'.target) \in dirs
               /\ last'.target \notin dirs ) =>
                /\ result' = "Ok"
                /\ last'.target \in DOMAIN fs'
                /\ fs'[last'.target] = last'.bytes
          /\ ( /\ last'.op = "add_directory"
               /\ WithAncestors(last'.target) \cap DOMAIN fs = {} ) =>
                /\ result' = "Ok"
                /\ dirs' = dirs \cup WithAncestors(last'.target)
                /\ fs' = fs ]_vars

\* a file written into a directory that add_directory created first
C11_Witness ==
    /\ writer = "PathWriter"
    /\ last.op \in WriteOps
    /\ last.target = "pkg/m"
    /\ result = "Ok"
    /\ "pkg" \in dirs
    /\ "pkg/m" \in DOMAIN fs

---------------------------------------------------------------------------
(* C12 *)

\* C12: the last line of the RECORD of a finalized PathWriter or WheelWriter
\* is the path of the RECORD file relative to the root, the metadata
\* directory name followed by /RECORD, and two empty fields.
C12_SelfLineIsRelative ==
    (Finalized /\ writer \in {"PathWriter", "WheelWriter"}) =>
        LET line == DistInfoDir \o "/RECORD,,\n"
        IN  RecordContent = line \/ EndsWith(RecordContent, "\n" \o line)

---------------------------------------------------------------------------
(* C13 *)

\* C13: every step that changes anything starts from a writer that has not
\* been finalized, so no add_directory, add_bytes*, add_file*, delete_dir or
\* second finalize follows finish / write_record; and a step closes the
\* writer exactly when it is finish / write_record.
C13_NothingAfterFinalize ==
    [][ /\ ~closed
        /\ closed' <=> last'.op = "finish" ]_vars

\* a writer finalized after it accepted two calls
C13_Witness ==
    /\ closed
    /\ ncalls = 2
    /\ last.op = "finish"

---------------------------------------------------------------------------
(* C20 *)

\* C20: whenever a call on an SDistWriter appends a complete entry to the tar
\* stream, the entry's header size is the byte length of the content and its
\* mode is the permission value of the call, 0o644 for add_bytes and add_file.
C20_HeaderCarriesRequest ==
    [][ ( /\ writer = "SDistWriter"
          /\ CallStep
          /\ result' = "Ok"
          /\ Len(tar') = Len(tar) + 1 ) =>
            LET entry == tar'[Len(tar')]
            IN  /\ entry.size = Len(last'.bytes)
                /\ entry.data = last'.bytes
                /\ entry.mode = last'.permissions
                /\ last'.op \in {"add_bytes", "add_file"} =>
                      entry.mode = DefaultPermissions ]_vars

---------------------------------------------------------------------------
(* Vocabulary of the layout properties *)

\* the layout function of the job has run and nothing came after it
Ran(fn) == job.fn = fn /\ last.op = fn

\* the targets of the calls in calls that are not add_directory, in order
WriteTargets(calls) ==
    LET written == SelectSeq(calls, LAMBDA c : c.op # "add_directory")
    IN  [ i \in 1..Len(written) |-> written[i].target ]

IsPrefix(a, b) == Len(a) <= Len(b) /\ SubSeq(b, 1, Len(a)) = a

\* the data of the zip entries called name
ZipData(name) == { zip[i].data : i \in { k \in 1..Len(zip) : zip[k].name = name } }

---------------------------------------------------------------------------
(* C14 *)

\* one line Tag: <tag> for each of the first n tags, in order
RECURSIVE ExpectedTagLines(_, _)
ExpectedTagLines(tags, n) ==
    IF n = 0 THEN "" ELSE ExpectedTagLines(tags, n - 1) \o "Tag: " \o tags[n] \o "\n"

\* C14: after WheelWriter::new the output file is named
\* {distribution}-{version}-{tag}.whl, and the WHEEL file it has written,
\* once, is the three header lines (Wheel-Version, Generator,
\* Root-Is-Purelib: false) followed by one line Tag: <tag> per supplied tag in
\* the supplied order; the wheel holds it as its one WHEEL entry unless the
\* rule set excludes WHEEL; for tag t1 and tags ["t1"] the file is
\* pkg-1.0.0-t1.whl and WHEEL contains Tag: t1.
C14_WheelNameAndTags ==
    (Ran("WheelWriter::new") /\ result = "Ok") =>
        LET header == "Wheel-Version: 1.0\nGenerator: " \o CargoPkgName \o " ("
                          \o CargoPkgVersion \o ")\nRoot-Is-Purelib: false\n"
            wheel  == header \o ExpectedTagLines(job.tags, Len(job.tags))
            calls  == { i \in 1..Len(issued) : issued[i].target = DistInfoDir \o "/WHEEL" }
        IN  /\ job.wheel_path = "pkg-1.0.0-" \o job.tag \o ".whl"
            /\ Cardinality(calls) = 1
            /\ \A i \in calls : issued[i].bytes = wheel
            /\ ZipData(DistInfoDir \o "/WHEEL")
                  = IF RuleExcludes(excludes, DistInfoDir \o "/WHEEL") THEN {} ELSE {wheel}
            /\ (job.tag = "t1" /\ job.tags = <<"t1">>) =>
                  /\ job.wheel_path = "pkg-1.0.0-t1.whl"
                  /\ \A data \in ZipData(DistInfoDir \o "/WHEEL") :
                        Contains(data, "Tag: t1\n")

\* a wheel constructed with two tags in the order t2, t1
C14_Witness ==
    /\ Ran("WheelWriter::new")
    /\ result = "Ok"
    /\ job.tags = <<"t2", "t1">>
    /\ job.wheel_path = "pkg-1.0.0-t1.whl"
    /\ \E data \in ZipData(DistInfoDir \o "/WHEEL") : Contains(data, "Tag: t2\nTag: t1\n")

---------------------------------------------------------------------------
(* C15 *)

\* the targets write_dist_info writes for this metadata
ExpectedDistInfoTargets(metadata21) ==
    <<DistInfoDir \o "/METADATA", DistInfoDir \o "/WHEEL">>
    \o (IF \/ metadata21.scripts # <<>>
           \/ metadata21.gui_scripts # <<>>
           \/ metadata21.entry_points # <<>>
        THEN <<DistInfoDir \o "/entry_points.txt">> ELSE <<>>)
    \o [ i \in 1..Len(metadata21.license_files) |->
           DistInfoDir \o "/license_files/" \o Basename(metadata21.license_files[i]) ]

\* C15: the writes write_dist_info has issued are, in this order, METADATA,
\* WHEEL, entry_points.txt when the project declares scripts or a group, and one
\* license_files/<file name> per declared license file (all of them when it
\* returned Ok, a prefix of them otherwise); none of them is RECORD, and the
\* writer is left open, without a RECORD file or entry.
C15_DistInfoOrder ==
    (Ran("write_dist_info") \/ Ran("WheelWriter::new")) =>
        LET expected == ExpectedDistInfoTargets(job.metadata21)
            targets  == WriteTargets(issued)
        IN  /\ IsPrefix(targets, expected)
            /\ result = "Ok" => targets = expected
            /\ result = "Ok" => Len(targets) >= 2
            /\ ~closed
            /\ \A i \in 1..Len(issued) : Basename(issued[i].target) # "RECORD"
            /\ (DistInfoDir \o "/RECORD") \notin DOMAIN fs
            /\ ZipData(DistInfoDir \o "/RECORD") = {}

\* a project with a script and two license files, written to an SDistWriter
C15_Witness ==
    /\ Ran("write_dist_info")
    /\ writer = "SDistWriter"
    /\ result = "Ok"
    /\ Len(job.metadata21.license_files) = 2
    /\ Len(WriteTargets(issued)) = 5

---------------------------------------------------------------------------
(* C16 *)

AllowedDataDirs == {"data", "scripts", "headers", "purelib", "platlib"}

\* the top-level entries of the data directory that are not a directory with
\* one of the allowed names
InvalidEntries ==
    { job.entries[i] : i \in { k \in 1..Len(job.entries) :
          job.entries[k] \notin AllowedDataDirs \/ job.entries[k] = "README" } }

\* C16: when the data directory has a top-level entry that is not a
\* directory named data, scripts, headers, purelib or platlib, add_data
\* returns an error, and it has made no call on the writer for that entry or
\* anything under it.
C16_InvalidDataDirEntry ==
    (Ran("add_data") /\ job.data /\ InvalidEntries # {}) =>
        /\ result = "Err"
        /\ \A e \in InvalidEntries : \A i \in 1..Len(issued) :
              ~Under("pkg.data/" \o e, issued[i].target)

\* a valid directory was copied before the invalid one was met
C16_Witness ==
    /\ Ran("add_data")
    /\ job.data
    /\ job.entries = <<"data", "bogus">>
    /\ result = "Err"
    /\ Len(issued) = 2
    /\ issued[2].target = "pkg.data/data/f"

---------------------------------------------------------------------------
(* C17 *)

\* the contents of the regular entries the output holds at path
RegularData(path) ==
    CASE writer = "PathWriter" -> IF path \in DOMAIN fs THEN {fs[path]} ELSE {}
      [] writer = "WheelWriter" -> ZipData(path)
      [] writer = "SDistWriter" ->
           { tar[i].data : i \in { k \in 1..Len(tar) :
                 tar[k].path = path /\ tar[k].type = "file" } }

\* the entries the output holds at path, of whatever type
EntriesAt(path) ==
    CASE writer = "PathWriter" -> IF path \in DOMAIN fs \/ path \in dirs THEN 1 ELSE 0
      [] writer = "WheelWriter" -> Cardinality({ k \in 1..Len(zip) : zip[k].name = path })
      [] writer = "SDistWriter" -> Cardinality({ k \in 1..Len(tar) : tar[k].path = path })

\* C17: when every top-level entry of the data directory is an allowed
\* directory and one of them (headers) holds a symbolic link l to the
\* readable file /store/real, add_data returns Ok and the output holds at the
\* link's mirrored path pkg.data/headers/l exactly one entry, a regular one,
\* whose content is the content of /store/real.
C17_LinksAreResolved ==
    ( /\ Ran("add_data")
      /\ job.data
      /\ InvalidEntries = {}
      /\ \E i \in 1..Len(job.entries) : job.entries[i] = "headers" ) =>
        /\ result = "Ok"
        /\ EntriesAt("pkg.data/headers/l") = 1
        /\ RegularData("pkg.data/headers/l") = {Disk["/store/real"].data}

---------------------------------------------------------------------------
(* C18 *)

\* the native libraries an editable build can have left in the source tree
StaleLibraries == { Join(PythonModule, n) : n \in LibraryNames }

\* C18: after a non-editable write_bindings_module of a mixed project has
\* returned Ok, no call it made on the writer has a library left by an
\* editable build as its source, whatever name that build gave it, and the
\* output holds one native library only: a single entry at so_filename below
\* the module, with the content of the artifact.
C18_NoStaleLibrary ==
    ( /\ Ran("write_bindings_module")
      /\ job.mixed
      /\ ~job.editable
      /\ result = "Ok" ) =>
        /\ \A i \in 1..Len(issued) : issued[i].source \notin StaleLibraries
        /\ \A n \in LibraryNames :
             LET target == Join(StripPrefix(PythonModule, Parent(PythonModule)), n)
             IN  IF n = SoFilename(job.interpreter, job.unix)
                 THEN /\ EntriesAt(target) = 1
                      /\ RegularData(target) = {Disk[Artifact].data}
                 ELSE EntriesAt(target) = 0

---------------------------------------------------------------------------
(* C19 *)

\* the files an editable run of the function of job places in the tree
PlacedInTree ==
    IF job.fn = "write_bindings_module"
    THEN PlacedByBindings(SoFilename(job.interpreter, job.unix))
    ELSE PlacedByCffi

\* C19: after write_bindings_module or write_cffi_module has run for a mixed
\* project with editable set, it has made no call on the writer: the writer
\* is as its constructor left it and nothing was written through it.  When
\* the function returned Ok its files are in the source tree.
C19_EditableMakesNoCall ==
    ( /\ Ran("write_bindings_module") \/ Ran("write_cffi_module")
      /\ job.mixed
      /\ job.editable ) =>
        /\ issued = <<>>
        /\ ncalls = 0
        /\ writes = <<>>
        /\ State = FreshWriter(writer)
        /\ result = "Ok" => PlacedInTree \subseteq DOMAIN job.tree

C19_Witness ==
    /\ Ran("write_bindings_module")
    /\ job.mixed
    /\ job.editable
    /\ job.tree = TreeOf({"__init__.py"})
         @@ [ p \in {"ext.abi3.so"} |-> Disk[Artifact].data ]
    /\ result = "Ok"
    /\ issued = <<>>

---------------------------------------------------------------------------
(* C21 *)

\* the files of fsys that do not lie under dir
Outside(fsys, dir) == [ q \in { f \in DOMAIN fsys : ~Under(dir, f) } |-> fsys[q] ]

\* C21: a step of PathWriter::delete_dir(rel): when rel does not exist it
\* returns Ok and leaves files and directories as they were; when it returns
\* Ok, nothing is left at or under rel and every file and directory outside
\* rel is as before; and a delete_dir(rel) that follows a successful
\* delete_dir(rel) changes nothing.
C21_DeleteDirIdempotent ==
    [][ last'.op = "delete_dir" =>
          LET rel == last'.target
          IN  /\ (rel \notin dirs /\ rel \notin DOMAIN fs) =>
                    (result' = "Ok" /\ fs' = fs /\ dirs' = dirs)
              /\ result' = "Ok" =>
                    /\ fs' = Outside(fs, rel)
                    /\ dirs' = { d \in dirs : ~Under(rel, d) }
                    /\ \A p \in DOMAIN fs' \cup dirs' : ~Under(rel, p)
              /\ (last.op = "delete_dir" /\ last.target = rel /\ result = "Ok") =>
                    (result' = "Ok" /\ fs' = fs /\ dirs' = dirs) ]_vars

C21_Witness ==
    /\ writer = "PathWriter"
    /\ last.op = "delete_dir"
    /\ last.target = "pkg"
    /\ result = "Ok"
    /\ ncalls = 4
    /\ \E i \in 1..Len(writes) : writes[i].target = "pkg/m"
    /\ "pkg/m" \notin DOMAIN fs
    /\ "pkg" \notin dirs
    /\ Join(DistInfoDir, "METADATA") \in DOMAIN fs

---------------------------------------------------------------------------
(* C22 *)

Blank(s) == \A i \in 1..Len(s) : Char(s, i) \in {" ", "\t", "\n", "\r"}

\* text is word with white space before and after it
TrimsTo(text, word) ==
    \E i \in 1..(Len(text) + 1) :
      \E k \in (i - 1)..Len(text) :
         /\ SubSeq(text, i, k) = word
         /\ Blank(SubSeq(text, 1, i - 1))
         /\ Blank(SubSeq(text, k + 1, Len(text)))

\* the probe returned text that trims to word
ProbeTrimsTo(word) ==
    /\ Len(probes) >= 1
    /\ probes[1].ran
    /\ probes[1].stdout.utf8
    /\ TrimsTo(probes[1].stdout.text, word)

\* C22: the installer is run if and only if the first generation exited
\* unsuccessfully with the missing-module line as the last line of its
\* stderr and the trimmed stdout of the probe is True; the probe is run if
\* and only if the first generation failed that way; and after a probe whose
\* output is neither True nor False the function returns what the first
\* generation came to, without an installer or a retry.
C22_InstallIffMissingAndIsolated ==
    /\ Len(installs) >= 1 => (FirstFailedMissingModule /\ ProbeTrimsTo("True"))
    /\ (FirstFailedMissingModule /\ ProbeTrimsTo("True")) =>
          (pc = "install" \/ Len(installs) = 1)
    /\ Len(probes) >= 1 => FirstFailedMissingModule
    /\ FirstFailedMissingModule => (pc = "probe" \/ Len(probes) = 1)
    /\ ( /\ Len(probes) >= 1
         /\ probes[1].ran
         /\ probes[1].stdout.utf8
         /\ ~ProbeTrimsTo("True")
         /\ ~ProbeTrimsTo("False") ) =>
          /\ Returned
          /\ installs = <<>>
          /\ Len(gen) = 1
          /\ IsOutcomeOf(ret, gen[1])

\* the installer is running after a probe that printed True and a newline
C22_Witness ==
    /\ FirstFailedMissingModule
    /\ gen[1].stderr.text = "Traceback\n" \o MissingCffi \o "\n"
    /\ ProbeTrimsTo("True")
    /\ probes[1].stdout.text = "True\n"
    /\ Len(installs) = 1
    /\ pc = "retry"

---------------------------------------------------------------------------
(* C23 *)

\* C23: every run of generate_cffi_declarations returns, and at every moment
\* it has made at most two generation calls, one probe call and one installer
\* call; once the second generation call has been made the function has
\* returned, with the outcome of that call, whatever its stderr says.
C23_EndsWithinBounds ==
    /\ <>Returned
    /\ [](/\ Len(gen) <= 2
          /\ Len(probes) <= 1
          /\ Len(installs) <= 1
          /\ Len(gen) = 2 => (Returned /\ IsOutcomeOf(ret, gen[2])))

\* the retried generation fails again for want of cffi, and that is the end
C23_Witness ==
    /\ Returned
    /\ Len(gen) = 2
    /\ gen[2].ran
    /\ gen[2].code # 0
    /\ gen[2].stderr.utf8
    /\ LastLineIs(gen[2].stderr.text, MissingCffi)
    /\ Len(probes) = 1
    /\ Len(installs) = 1
    /\ ~ret.ok

---------------------------------------------------------------------------
(* C24 *)

\* the metadata holds an entry point: a console script, a gui script, or an
\* entry in a custom group
HasEntryPoint(metadata21) ==
    \/ metadata21.scripts # <<>>
    \/ metadata21.gui_scripts # <<>>
    \/ \E i \in 1..Len(metadata21.entry_points) : metadata21.entry_points[i][2] # <<>>

\* one section: the bracketed group and a key=value line per entry
RECURSIVE SectionOf(_, _, _)
SectionOf(group, entries, n) ==
    IF n = 0 THEN "[" \o group \o "]\n"
    ELSE SectionOf(group, entries, n - 1) \o entries[n][1] \o "=" \o entries[n][2] \o "\n"

RECURSIVE CustomSections(_, _)
CustomSections(groups, n) ==
    IF n = 0 THEN ""
    ELSE CustomSections(groups, n - 1)
         \o SectionOf(groups[n][1], groups[n][2], Len(groups[n][2]))

\* the sections in the order console_scripts, gui_scripts, custom groups
ExpectedEntryPoints(metadata21) ==
    (IF metadata21.scripts # <<>>
     THEN SectionOf("console_scripts", metadata21.scripts, Len(metadata21.scripts))
     ELSE "")
    \o (IF metadata21.gui_scripts # <<>>
        THEN SectionOf("gui_scripts", metadata21.gui_scripts, Len(metadata21.gui_scripts))
        ELSE "")
    \o CustomSections(metadata21.entry_points, Len(metadata21.entry_points))

\* the calls issued that write entry_points.txt
EntryPointsWrites ==
    { i \in 1..Len(issued) : issued[i].target = Join(DistInfoDir, "entry_points.txt") }

\* C24: after write_dist_info has returned Ok, it has written
\* entry_points.txt if and only if the metadata holds at least one entry
\* point; when it has, it wrote it once, and its text is the sections
\* [console_scripts], [gui_scripts] and the custom groups in that order, each
\* with one key=value line per entry of the group.
C24_EntryPointsIffAny ==
    ( /\ Ran("write_dist_info") \/ Ran("WheelWriter::new")
      /\ result = "Ok" ) =>
        /\ EntryPointsWrites # {} <=> HasEntryPoint(job.metadata21)
        /\ Cardinality(EntryPointsWrites) <= 1
        /\ \A i \in EntryPointsWrites :
              issued[i].bytes = ExpectedEntryPoints(job.metadata21)

---------------------------------------------------------------------------
(* C25 *)

\* C25: after WheelWriter::new has returned Ok, whatever rule set it was
\* given, the ledger and the zip each hold at least two entries, and the
\* first two are METADATA and WHEEL of the metadata directory, in that order.
C25_MetadataComesFirst ==
    (Ran("WheelWriter::new") /\ result = "Ok") =>
        /\ Len(record) >= 2
        /\ record[1][1] = Join(DistInfoDir, "METADATA")
        /\ record[2][1] = Join(DistInfoDir, "WHEEL")
        /\ Len(zip) >= 2
        /\ zip[1].name = Join(DistInfoDir, "METADATA")
        /\ zip[2].name = Join(DistInfoDir, "WHEEL")

---------------------------------------------------------------------------
(* C26 *)

\* C26: when a WheelWriter or a PathWriter has been finalized, no two records
\* of its ledger have the same path.
C26_RecordPathsDistinct ==
    (Finalized /\ writer \in {"WheelWriter", "PathWriter"}) =>
        \A i, k \in 1..Len(record) : record[i][1] = record[k][1] => i = k

---------------------------------------------------------------------------
(* C27 *)

\* the targets of the entries appended whole to the tar stream
Appended == { tar[i].path : i \in { k \in 1..Len(tar) : tar[k].whole } }

\* C27: on an SDistWriter files is at every moment the set of the targets
\* appended to the tar stream, and a call that appends no whole entry
\* (excluded, duplicate, the archive itself, or failed) leaves files as it
\* was.
C27_FilesAreTheAppended ==
    /\ [](writer = "SDistWriter" => files = Appended)
    /\ [][ (writer = "SDistWriter" /\ CallStep) =>
             /\ (result' = "Err" \/ Len(tar') = Len(tar)) => files' = files
             /\ (result' = "Ok" /\ Len(tar') = Len(tar) + 1) =>
                   files' = files \cup {last'.target} ]_vars

\* an append of test1 failed midway, and a later call has written test1
C27_Witness ==
    /\ writer = "SDistWriter"
    /\ excludes = NoOverride
    /\ result = "Ok"
    /\ Len(tar) = 2
    /\ tar[1].path = "test1" /\ ~tar[1].whole
    /\ tar[2].path = "test1" /\ tar[2].whole
    /\ files = {"test1"}

---------------------------------------------------------------------------
(* C28 *)

\* every ledger record names a file that exists under the base path
RecordsExist == \A i \in 1..Len(record) : record[i][1] \in DOMAIN fs

\* C28 as stated: whatever calls were made, delete_dir among them, every
\* record that write_record has serialized names a file that exists.
C28_Original ==
    (writer = "PathWriter" /\ Finalized) => RecordsExist

\* C28 amended: on a PathWriter every ledger record names a file that exists
\* under the base path, from construction on, as long as delete_dir is not
\* called on a directory that holds a recorded file: every add_directory,
\* add_bytes*, add_file* and write_record keeps it so, and so does a
\* delete_dir of a directory into which nothing recorded has been written;
\* delete_dir itself never changes the ledger.
C28_RecordsExistUnlessDeleted ==
    /\ (writer = "PathWriter" => RecordsExist)
    /\ [][ (writer = "PathWriter" /\ RecordsExist) =>
             /\ last'.op = "delete_dir" => record' = record
             /\ \/ RecordsExist'
                \/ /\ last'.op = "delete_dir"
                   /\ \E i \in 1..Len(record) : Under(last'.target, record[i][1]) ]_vars

\* delete_dir(pkg) has run after test1 was written beside pkg: the ledger
\* still names test1, and test1 is still there
C28_Witness ==
    /\ writer = "PathWriter"
    /\ last.op = "delete_dir"
    /\ last.target = "pkg"
    /\ result = "Ok"
    /\ ncalls = 3
    /\ faults = 0
    /\ "pkg" \notin dirs
    /\ Len(record) = 3
    /\ record[3][1] = "test1"
    /\ RecordsExist

---------------------------------------------------------------------------
(* C29 *)

\* C29: a step of WheelWriter::finish consumes the writer.  When it returns
\* Ok (the result that carries the wheel path) no I/O step of it failed and
\* the zip is what it was with one entry more at its end, the whole RECORD
\* of the metadata directory, whatever the rule set says about that path;
\* when an I/O step fails it returns Err, and the zip then holds the earlier
\* entries unchanged, followed at most by a RECORD entry.
C29_RecordIsLast ==
    [][ (writer = "WheelWriter" /\ last'.op = "finish") =>
          LET n == Len(zip)
          IN  /\ closed'
              /\ SubSeq(zip', 1, n) = zip
              /\ Len(zip') \in {n, n + 1}
              /\ Len(zip') = n + 1 => zip'[n + 1].name = Join(DistInfoDir, "RECORD")
              /\ result' = "Ok" =>
                    /\ faults' = faults
                    /\ Len(zip') = n + 1
                    /\ zip'[n + 1].whole
              /\ faults' # faults => result' = "Err" ]_vars

\* a wheel built under a rule set that excludes RECORD, finalized after a write
C29_Witness ==
    /\ writer = "WheelWriter"
    /\ Finalized
    /\ excludes = RecordRules
    /\ RuleExcludes(excludes, Join(DistInfoDir, "RECORD"))
    /\ Len(zip) = 4
    /\ zip[3].name = "test1"
    /\ zip[4].name = Join(DistInfoDir, "RECORD")
    /\ zip[4].whole

=============================================================================
